---------------------------- MODULE Spec2Model ----------------------------
(***************************************************************************)
(* A model of GetBlunted: the OverlapMap, the biclique cover of a          *)
(* bipartite block, the splicing of the per-biclique subgraphs and the     *)
(* bluntify pipeline.                                                      *)
(*                                                                         *)
(* A handle is <<node id, is_reverse>>; an edge is <<left, right>>.        *)
(***************************************************************************)
EXTENDS Integers, Sequences, FiniteSets, TLC

\* ------------------------------------------------------------------ bounds
MaxNode == 1        \* node ids of the OverlapMap specification are 1..MaxNode
MaxEntries == 2     \* the OverlapMap holds at most this many entries
MaxCigar == 1       \* an overlap's CIGAR is "kM" with k in 0..MaxCigar
MaxLeft == 3        \* a small bipartite block has at most this many left nodes
MaxRight == 3       \* and at most this many right nodes
BigLeft == 33       \* the left size of the one block above the size threshold
BigRight == 32      \* and its right size
MaxSpNode == 2      \* the main graph of the splicing has nodes 1..MaxSpNode
MaxSpEdges == 2     \* and at most this many edges before the splicing
MaxTermini == 2     \* the subgraphs have at most this many paths altogether
MaxSubgraphs == 2   \* the number of subgraphs spliced
MaxGfaNodes == 3    \* a small GFA file has at most this many nodes
MaxLinks == 3       \* and at most this many links
BigNodes == 33      \* the nodes of the one file above the size threshold
LinkOverlap == 1    \* the overlap length of every link of a GFA file
MaxNiNode == 2      \* the graph NodeInfo looks at has nodes 1..MaxNiNode
MaxOverlapLen == 2  \* each end of a NodeInfo overlap is 1..MaxOverlapLen long
MaxNodeLen == 3     \* a node of the duplication is 1..MaxNodeLen bases long
MaxSepNodes == 3    \* separator() is given MaxSepNodes or fewer nodes of bicliques

\* ----------------------------------------------------------------- handles
Nodes == 1..MaxNode
Handles == Nodes \X BOOLEAN
Edges == Handles \X Handles
Cigars == 0..MaxCigar

get_id(h) == h[1]
get_is_reverse(h) == h[2]
flip(h) == <<h[1], ~h[2]>>

\* The other form of the same physical overlap: (flip(v), flip(u)).
FlipEdge(e) == <<flip(e[2]), flip(e[1])>>

\* unordered_map::end()
End == <<>>

VARIABLES
    overlaps,    \* OverlapMap::overlaps: edge -> CIGAR
    om_call,     \* the OverlapMap method called last
    om_arg,      \* the edge the caller passed to it
    om_edge,     \* the caller's edge variable after the call (passed by reference)
    om_iter,     \* the iterator returned: the stored key, or End
    om_thrown    \* whether the call threw

om_vars == <<overlaps, om_call, om_arg, om_edge, om_iter, om_thrown>>

\* ---------------------------------------------------------------- OverlapMap

\* unordered_map::insert: an existing key keeps its value.
MapInsert(m, e, c) ==
    IF e \in DOMAIN m THEN m
    ELSE [k \in DOMAIN m \cup {e} |-> IF k = e THEN c ELSE m[k]]

\* OverlapMap::insert(e, edge_handle)
insert(m, e, c) == MapInsert(m, e, c)

\* OverlapMap::update_edge(old, new): the entry is re-keyed, the CIGAR kept.
update_edge(m, old, new) ==
    [k \in (DOMAIN m \ {old}) \cup {new} |-> IF k = new THEN m[old] ELSE m[k]]

\* A lookup that gives up after the first miss.
canonicalize_and_find_noflip(m, e) ==
    IF e \in DOMAIN m
    THEN [edge |-> e, iter |-> e, thrown |-> FALSE]
    ELSE [edge |-> e, iter |-> End, thrown |-> TRUE]

\* A lookup that rewrites the caller's edge whether or not the first find hit.
canonicalize_and_find_alwaysflip(m, e) ==
    IF e \in DOMAIN m
    THEN [edge |-> FlipEdge(e), iter |-> e, thrown |-> FALSE]
    ELSE IF FlipEdge(e) \in DOMAIN m
         THEN [edge |-> FlipEdge(e), iter |-> FlipEdge(e), thrown |-> FALSE]
         ELSE [edge |-> FlipEdge(e), iter |-> End, thrown |-> TRUE]

\* OverlapMap::canonicalize_and_find(edge, graph): the edge is looked up as
\* given; on a miss the caller's edge is rewritten to (flip(second),
\* flip(first)) and looked up again; a second miss throws runtime_error.
canonicalize_and_find(m, e) ==
    IF e \in DOMAIN m
    THEN [edge |-> e, iter |-> e, thrown |-> FALSE]
    ELSE IF FlipEdge(e) \in DOMAIN m
         THEN [edge |-> FlipEdge(e), iter |-> FlipEdge(e), thrown |-> FALSE]
         ELSE [edge |-> FlipEdge(e), iter |-> End, thrown |-> TRUE]

\* The canonical form of e: the caller's edge after a successful lookup.
canon(m, e) == canonicalize_and_find(m, e).edge

\* ------------------------------------------------------------ small helpers
Min(S) == CHOOSE x \in S : \A y \in S : x <= y
Max(S) == CHOOSE x \in S : \A y \in S : x >= y

RECURSIVE SetToSeq(_)
\* The members of a set of integers, ascending.
SetToSeq(S) == IF S = {} THEN <<>> ELSE <<Min(S)>> \o SetToSeq(S \ {Min(S)})

Range(s) == {s[i] : i \in DOMAIN s}

\* The position of x in the sequence s (0 when absent).
IndexOf(s, x) == IF x \in Range(s) THEN Min({i \in DOMAIN s : s[i] = x}) ELSE 0

\* --------------------------------------------------------- bipartite blocks
\* A bipartite block is [nl, nr, E]: left nodes 1..nl, right nodes 1..nr in
\* the order of BipartiteGraph::bipartition(), E a set of <<left, right>>.
\* follow_edges visits the neighbours of a node in ascending order.

\* A size_t or uint64_t counter is kept as its representative in
\* (-2^63, 2^63): 0 - 1 is -1, which stands for 2^64 - 1.  A comparison
\* "x > 0" of the code is therefore x # 0, and "x == 0" is x = 0.
UGtZero(x) == x # 0

\* The edge between node p of the partition being simplified and node q of
\* the other partition.
EdgeOf(side, p, q) == IF side = "L" THEN <<p, q>> ELSE <<q, p>>

\* Neighbours of node p of partition `side` in the edge set E.
Nbd(E, side, p) ==
    IF side = "L" THEN {e[2] : e \in {x \in E : x[1] = p}}
    ELSE {e[1] : e \in {x \in E : x[2] = p}}

PartSize(blk, side) == IF side = "L" THEN blk.nl ELSE blk.nr

\* ------------------------------------------- BicliqueCover::simplify_side
\* The state of one call: the counters of the code, the edges subtracted
\* from `simplifying` so far, and the position in the loops.

\* simplify_side, initialisation; degrees and deltas are read from raw_graph.
SimplifyInit(side, blk, removed) ==
    LET n == PartSize(blk, side)
        RawN(i) == Nbd(blk.E, side, i)
        deg == [i \in 1..n |-> Cardinality(RawN(i))]
        dl == [i \in 1..n |-> [j \in 1..n |->
                  IF i = j THEN deg[i]
                  ELSE deg[i] - Cardinality(RawN(i) \cap RawN(j))]]
    IN [side |-> side, n |-> n, raw |-> blk.E, removed |-> removed,
        degree |-> deg,
        neighbor_delta |-> dl,
        successor |-> [i \in 1..n |-> [j \in 1..n |-> i # j /\ dl[i][j] = 0]],
        nonmaximal |-> [i \in 1..n |-> \E j \in 1..n : i # j /\ dl[i][j] = 0],
        num_successors |-> [i \in 1..n |->
                  Cardinality({j \in 1..n : i # j /\ dl[i][j] = 0})],
        phase |-> "scan", i |-> 0, j |-> 0, todo |-> <<>>]

\* The graph `simplifying`: the raw edges that were not subtracted.
Simplified(ss) == ss.raw \ ss.removed

RECURSIVE KLoop(_, _, _, _)
\* simplify_side, the loop over k after the edge (j, nbr) was subtracted.
KLoop(ss, j, nbr_nbrs, k) ==
    IF k > ss.n THEN ss
    ELSE
      LET d1 == [ss.neighbor_delta EXCEPT ![j][k] = @ - 1]
          inN == k \in nbr_nbrs
          d2 == IF inN THEN [d1 EXCEPT ![k][j] = @ + 1] ELSE d1
          drop == inN /\ ss.nonmaximal[k] /\ ss.successor[k][j]
          s1 == IF drop THEN [ss.successor EXCEPT ![k][j] = FALSE]
                ELSE ss.successor
          n1 == IF drop THEN [ss.num_successors EXCEPT ![k] = @ - 1]
                ELSE ss.num_successors
          m1 == IF inN /\ ss.nonmaximal[k] /\ n1[k] = 0
                THEN [ss.nonmaximal EXCEPT ![k] = FALSE]
                ELSE ss.nonmaximal
          sub == d2[j][k] = 0 /\ UGtZero(ss.degree[j])
          m2 == IF sub THEN [m1 EXCEPT ![j] = TRUE] ELSE m1
          add == sub /\ ~s1[k][j]
          s2 == IF add THEN [s1 EXCEPT ![k][j] = TRUE] ELSE s1
          n2 == IF add THEN [n1 EXCEPT ![k] = @ + 1] ELSE n1
      IN KLoop([ss EXCEPT !.neighbor_delta = d2, !.successor = s2,
                          !.num_successors = n2, !.nonmaximal = m2],
               j, nbr_nbrs, k + 1)

\* simplify_side, the body run for one neighbour nbr of i while j succeeds i.
RemoveEdge(ss, j, nbr) ==
    LET rem == ss.removed \cup {EdgeOf(ss.side, j, nbr)}
        s0 == [ss EXCEPT !.removed = rem,
                         !.degree = [@ EXCEPT ![j] = @ - 1]]
        nbr_nbrs == {k \in 1..ss.n : EdgeOf(ss.side, k, nbr) \in ss.raw \ rem}
    IN KLoop(s0, j, nbr_nbrs, 1)

\* simplify_side, one step of the simplification loop.
SimplifyStep(ss) ==
    CASE ss.phase = "scan" ->
           LET cand == {i \in 1..ss.n : ss.nonmaximal[i]} IN
           IF cand = {} THEN [ss EXCEPT !.phase = "done"]
           ELSE [ss EXCEPT !.phase = "pair", !.i = Min(cand), !.j = 1]
      [] ss.phase = "pair" ->
           IF ss.j > ss.n
           THEN [ss EXCEPT !.phase = "scan",
                           !.nonmaximal = [@ EXCEPT ![ss.i] = FALSE]]
           ELSE IF ~ss.successor[ss.i][ss.j]
           THEN [ss EXCEPT !.j = @ + 1]
           ELSE [ss EXCEPT !.phase = "edges",
                     !.todo = SetToSeq(Nbd(Simplified(ss), ss.side, ss.i))]
      [] ss.phase = "edges" ->
           IF ss.todo = <<>>
           THEN [ss EXCEPT !.phase = "pair", !.j = @ + 1]
           ELSE [RemoveEdge(ss, ss.j, Head(ss.todo)) EXCEPT !.todo = Tail(ss.todo)]
      [] OTHER -> ss

RECURSIVE SimplifyRun(_)
SimplifyRun(ss) == IF ss.phase = "done" THEN ss ELSE SimplifyRun(SimplifyStep(ss))

\* BicliqueCover::simplify_side: the edges subtracted once the call returns.
simplify_side(side, blk, removed) == SimplifyRun(SimplifyInit(side, blk, removed)).removed

\* BicliqueCover::simplify: the left partition, then the right one.
simplify(blk) == simplify_side("R", blk, simplify_side("L", blk, {}))

\* --------------------------------------------------- CenteredGaloisTree
\* numeric_limits<size_t>::max() as "no successor"; the equivalence classes
\* are numbered from 1 here, the code's class i is class i + 1.
NoSucc == 0

RECURSIVE Discover(_, _, _)
\* The left nodes of the two-hop subgraph in the order the constructor first
\* meets them: for each right neighbour of the centre, its left neighbours.
Discover(E, rights, acc) ==
    IF rights = <<>> THEN acc
    ELSE LET ls == SetToSeq(Nbd(E, "R", Head(rights)))
             new == SelectSeq(ls, LAMBDA l : l \notin Range(acc))
         IN Discover(E, Tail(rights), acc \o new)

RECURSIVE RefineLefts(_, _, _, _)
\* One right node refines the classes of its left neighbours (positions in
\* left_nodes); st is [assign, next], mapping is equiv_mapping.
RefineLefts(st, mapping, lefts, left_nodes) ==
    IF lefts = <<>> THEN st
    ELSE LET pos == IndexOf(left_nodes, Head(lefts))
             eq == st.assign[pos]
         IN IF eq \in DOMAIN mapping
            THEN RefineLefts([st EXCEPT !.assign[pos] = mapping[eq]],
                             mapping, Tail(lefts), left_nodes)
            ELSE RefineLefts([assign |-> [st.assign EXCEPT ![pos] = st.next],
                              next |-> st.next + 1],
                             [x \in DOMAIN mapping \cup {eq} |->
                                 IF x = eq THEN st.next ELSE mapping[x]],
                             Tail(lefts), left_nodes)

RECURSIVE RefineRights(_, _, _, _)
RefineRights(E, st, rights, left_nodes) ==
    IF rights = <<>> THEN st
    ELSE RefineRights(E,
             RefineLefts(st, <<>>, SetToSeq(Nbd(E, "R", Head(rights))), left_nodes),
             Tail(rights), left_nodes)

RECURSIVE Compact(_, _, _, _, _)
\* Quotient by the classes: cs is [ids, equiv_classes, left_edges], ids the
\* raw class identifiers in the order their compacted class was made.
Compact(i, assign, left_nodes, left_edges, cs) ==
    IF i > Len(left_nodes) THEN cs
    ELSE LET raw == assign[i]
             c == IndexOf(cs.ids, raw)
         IN IF c = 0
            THEN Compact(i + 1, assign, left_nodes, left_edges,
                     [ids |-> Append(cs.ids, raw),
                      equiv_classes |-> Append(cs.equiv_classes, <<left_nodes[i]>>),
                      left_edges |-> Append(cs.left_edges, left_edges[i])])
            ELSE Compact(i + 1, assign, left_nodes, left_edges,
                     [cs EXCEPT !.equiv_classes[c] = Append(@, left_nodes[i])])

RECURSIVE ConcatAll(_)
ConcatAll(ss) == IF ss = <<>> THEN <<>> ELSE Head(ss) \o ConcatAll(Tail(ss))

RECURSIVE SuccScan(_, _, _, _)
\* The predecessor lists: st is [successors, predecessors, pred, failed]; i is
\* the right node, j the position in its degree ordered neighbourhood.
SuccScan(st, nbds, i, j) ==
    IF st.failed \/ i > Len(nbds) THEN st
    ELSE IF j > Len(nbds[i])
    THEN IF i + 1 > Len(nbds) THEN st
         ELSE SuccScan([st EXCEPT !.pred = nbds[i + 1][1]], nbds, i + 1, 2)
    ELSE LET succ == nbds[i][j] IN
         IF st.successors[st.pred] = NoSucc
         THEN SuccScan([st EXCEPT !.successors[st.pred] = succ,
                                  !.predecessors[succ] = Append(@, st.pred),
                                  !.pred = succ], nbds, i, j + 1)
         ELSE IF st.successors[st.pred] # succ
         THEN [st EXCEPT !.failed = TRUE]
         ELSE SuccScan([st EXCEPT !.pred = succ], nbds, i, j + 1)

RECURSIVE MergeCount(_, _, _, _)
\* The merge of two sorted edge lists: how many entries of pred_nbd were
\* matched when succ_nbd or pred_nbd ran out.
MergeCount(succ_nbd, pred_nbd, s, p) ==
    IF s > Len(succ_nbd) \/ p > Len(pred_nbd) THEN p - 1
    ELSE IF succ_nbd[s] = pred_nbd[p]
         THEN MergeCount(succ_nbd, pred_nbd, s + 1, p + 1)
         ELSE MergeCount(succ_nbd, pred_nbd, s + 1, p)

\* CenteredGaloisTree::clear
ClearedTree ==
    [equiv_classes |-> <<>>, neighborhoods |-> <<>>, successors |-> <<>>,
     equiv_class_predecessors |-> <<>>]

\* The two-hop subgraph of the centre: [right_nodes, left_nodes, left_edges],
\* left_edges[k] the positions in right_nodes of the neighbours of
\* left_nodes[k].
LeftEdges(E, right_nodes, left_nodes) ==
    [k \in 1..Len(left_nodes) |->
        SelectSeq([p \in 1..Len(right_nodes) |-> p],
                  LAMBDA p : <<left_nodes[k], right_nodes[p]>> \in E)]

TwoHopOf(E, right_nodes, left_nodes) ==
    [right_nodes |-> right_nodes, left_nodes |-> left_nodes,
     left_edges |-> LeftEdges(E, right_nodes, left_nodes)]

TwoHop(E, center) ==
    TwoHopOf(E, SetToSeq(Nbd(E, "L", center)),
             Discover(E, SetToSeq(Nbd(E, "L", center)), <<>>))

\* equiv_class_assignment after the refinement by every right node.
Refined(E, th) ==
    RefineRights(E, [assign |-> [k \in 1..Len(th.left_nodes) |-> -1], next |-> 0],
                 th.right_nodes, th.left_nodes).assign

\* The compacted classes: [equiv_classes, left_edges].
Quotient(E, th) ==
    Compact(1, Refined(E, th), th.left_nodes, th.left_edges,
            [ids |-> <<>>, equiv_classes |-> <<>>, left_edges |-> <<>>])

\* neighborhoods: the right nodes of each class.
Neighborhoods(th, cs) ==
    [c \in 1..Len(cs.left_edges) |->
        [x \in 1..Len(cs.left_edges[c]) |-> th.right_nodes[cs.left_edges[c][x]]]]

\* The classes by degree and, within a degree, by index (degree_groups).
DegreeOrder(th, cs) ==
    ConcatAll([d \in 1..(Len(th.right_nodes) + 1) |->
        SetToSeq({c \in 1..Len(cs.left_edges) : Len(cs.left_edges[c]) = d - 1})])

\* degree_ordered_nbds: for each right node its classes, in degree order.
DegreeOrderedNbds(th, cs) ==
    [p \in 1..Len(th.right_nodes) |->
        SelectSeq(DegreeOrder(th, cs), LAMBDA c : p \in Range(cs.left_edges[c]))]

\* The successor and predecessor lists.
Scanned(nc, nbds) ==
    IF Len(nbds) = 0
    THEN [successors |-> <<>>, predecessors |-> <<>>, pred |-> 0, failed |-> FALSE]
    ELSE SuccScan([successors |-> [c \in 1..nc |-> NoSucc],
                   predecessors |-> [c \in 1..nc |-> <<>>],
                   pred |-> nbds[1][1], failed |-> FALSE], nbds, 1, 2)

\* Whether every predecessor's neighbourhood is contained in its successor's.
Contained(cs, predecessors) ==
    \A i \in 1..Len(predecessors) :
        \A x \in 1..Len(predecessors[i]) :
            MergeCount(cs.left_edges[i], cs.left_edges[predecessors[i][x]], 1, 1)
                >= Len(cs.left_edges[predecessors[i][x]])

TreeOf(th, cs, sc) ==
    IF sc.failed THEN ClearedTree
    ELSE IF ~Contained(cs, sc.predecessors) THEN ClearedTree
    ELSE [equiv_classes |-> cs.equiv_classes,
          neighborhoods |-> Neighborhoods(th, cs),
          successors |-> sc.successors,
          equiv_class_predecessors |-> sc.predecessors]

TreeOfQuotient(th, cs) ==
    TreeOf(th, cs, Scanned(Len(cs.equiv_classes), DegreeOrderedNbds(th, cs)))

TreeOfTwoHop(E, th) == TreeOfQuotient(th, Quotient(E, th))

\* CenteredGaloisTree::CenteredGaloisTree(graph, center) over the edge set E.
CenteredGaloisTree(E, center) == TreeOfTwoHop(E, TwoHop(E, center))

\* CenteredGaloisTree::has_neighbor_ordering_property
has_neighbor_ordering_property(tree) == tree.equiv_classes # <<>>

RECURSIVE central_equivalence_class_from(_, _)
central_equivalence_class_from(tree, i) ==
    IF tree.successors[i] = NoSucc THEN i
    ELSE central_equivalence_class_from(tree, tree.successors[i])

\* CenteredGaloisTree::central_equivalence_class
central_equivalence_class(tree) == central_equivalence_class_from(tree, 1)

\* CenteredGaloisTree::right_size
right_size(tree, i) == Len(tree.neighborhoods[i])

RECURSIVE BicliqueLeft(_, _)
BicliqueLeft(tree, i) ==
    IF i = NoSucc THEN {}
    ELSE Range(tree.equiv_classes[i]) \cup BicliqueLeft(tree, tree.successors[i])

\* A biclique(i) that takes the right side from the central class.
biclique_centralnbd(tree, i) ==
    <<BicliqueLeft(tree, i), Range(tree.neighborhoods[central_equivalence_class(tree)])>>

\* CenteredGaloisTree::biclique(i): <<left set, right set>>
biclique(tree, i) == <<BicliqueLeft(tree, i), Range(tree.neighborhoods[i])>>

\* --------------------------------------------------------- GaloisLattice
\* Tree i and lattice node i of the code are tree i + 1 and node i + 1 here.

\* edge_max_biclique's initial entry, pair<int64_t, int64_t>(-1, -1)
NoBiclique == <<-1, -1>>

\* biclique_index[key] of std::map: a missing key is inserted with value 0,
\* which is lattice node 1 here.
IndexOrInsert(bi, key) ==
    IF key \in DOMAIN bi THEN bi
    ELSE [k \in DOMAIN bi \cup {key} |-> IF k = key THEN 1 ELSE bi[k]]

\* biclique_index[key] = v
IndexAssign(bi, key, v) ==
    [k \in DOMAIN bi \cup {key} |-> IF k = key THEN v ELSE bi[k]]

RECURSIVE LinkTree(_, _, _, _), LinkClass(_, _, _, _, _), LinkPushed(_, _, _, _, _)

\* A new maximal biclique <<i, equiv_class>>: a lattice node is made for it
\* and it becomes the maximal biclique of every edge of its class.
Register(g, tree, i, equiv_class) ==
    [edge_max_biclique |-> [e \in DOMAIN g.edge_max_biclique |->
         IF e \in Range(tree.equiv_classes[equiv_class])
                     \X Range(tree.neighborhoods[equiv_class])
         THEN <<i, equiv_class>> ELSE g.edge_max_biclique[e]],
     biclique_index |-> IndexAssign(g.biclique_index, <<i, equiv_class>>,
                                    Len(g.bicliques) + 1),
     bicliques |-> Append(g.bicliques, <<i, equiv_class>>),
     lattice |-> Append(g.lattice, <<>>)]

\* lattice[biclique_index[key]].push_back(biclique_index[max_so_far])
Connect(g, key, max_so_far) ==
    [g EXCEPT !.biclique_index = IndexOrInsert(IndexOrInsert(@, key), max_so_far),
              !.lattice[IndexOrInsert(g.biclique_index, key)[key]] =
                  Append(@, IndexOrInsert(IndexOrInsert(g.biclique_index, key),
                                          max_so_far)[max_so_far])]

\* "add a connection in the lattice from the previous recursive call":
\* prev_frame is stack[stack.size() - 2].
ConnectPrev(g, i, stack, max_so_far) ==
    IF Len(stack) > 1
    THEN Connect(g, <<i, stack[Len(stack) - 1].list[stack[Len(stack) - 1].pos]>>,
                 max_so_far)
    ELSE g

\* Whether the class is larger than the maximal biclique `found` of its
\* first edge.
Larger(trees, i, equiv_class, found) ==
    right_size(trees[i], equiv_class) >
        (IF found[1] = -1 THEN 0 ELSE right_size(trees[found[1]], found[2]))

\* *galois_tree.edge_begin(equiv_class)
FirstEdge(tree, equiv_class) ==
    <<tree.equiv_classes[equiv_class][1], tree.neighborhoods[equiv_class][1]>>

\* The while loop over the stack of tree i (algorithm 5); g is
\* [edge_max_biclique, biclique_index, bicliques, lattice], a stack frame
\* is [list, pos] with pos the number of entries of list already handled.
LinkTree(g, trees, i, stack) ==
    IF stack = <<>> THEN g
    ELSE IF Len(stack[Len(stack)].list) = stack[Len(stack)].pos
    THEN LinkTree(g, trees, i, SubSeq(stack, 1, Len(stack) - 1))
    ELSE LinkClass(g, trees, i, [stack EXCEPT ![Len(stack)].pos = @ + 1],
                   stack[Len(stack)].list[stack[Len(stack)].pos + 1])

\* One equivalence class taken from the top frame (already advanced).
LinkClass(g, trees, i, stack, equiv_class) ==
    IF Larger(trees, i, equiv_class,
              g.edge_max_biclique[FirstEdge(trees[i], equiv_class)])
    THEN LinkPushed(Register(g, trees[i], i, equiv_class), trees, i,
             Append(stack, [list |-> trees[i].equiv_class_predecessors[equiv_class],
                            pos |-> 0]),
             <<i, equiv_class>>)
    ELSE LinkPushed(g, trees, i, stack,
                    g.edge_max_biclique[FirstEdge(trees[i], equiv_class)])

LinkPushed(g, trees, i, stack, max_so_far) ==
    LinkTree(ConnectPrev(g, i, stack, max_so_far), trees, i, stack)

RECURSIVE LinkTrees(_, _, _)
\* The loop over galois_trees.
LinkTrees(g, trees, i) ==
    IF i > Len(trees) THEN g
    ELSE LinkTrees(LinkTree(g, trees, i,
                       <<[list |-> <<central_equivalence_class(trees[i])>>,
                          pos |-> 0]>>),
                   trees, i + 1)

\* The nodes of the meet and the join in `bicliques`.
join == <<NoSucc, 0>>
meet == <<NoSucc, 1>>

\* GaloisLattice::clear
ClearedLattice ==
    [galois_trees |-> <<>>, bicliques |-> <<>>, biclique_index |-> <<>>,
     lattice |-> <<>>]

\* "identify sources and sinks in the lattice": is_source starts all false
\* and is only ever assigned false.
is_source(g) == [i \in 1..Len(g.bicliques) |-> FALSE]

sinks(g) == {i \in 1..Len(g.bicliques) : g.lattice[i] = <<>>}

\* The lattice with the nodes of the join and of the meet appended: the
\* join points at the sources, the sinks point at the meet.
WithJoinAndMeet(g, n) ==
    [i \in 1..(n + 2) |->
        IF i = n + 1 THEN SetToSeq({j \in 1..n : is_source(g)[j]})
        ELSE IF i = n + 2 THEN <<>>
        ELSE IF i \in sinks(g) THEN Append(g.lattice[i], n + 2)
        ELSE g.lattice[i]]

LatticeOf(trees, g) ==
    [galois_trees |-> trees,
     bicliques |-> g.bicliques \o <<join, meet>>,
     biclique_index |->
         IndexAssign(IndexAssign(g.biclique_index, join, Len(g.bicliques) + 1),
                     meet, Len(g.bicliques) + 2),
     lattice |-> WithJoinAndMeet(g, Len(g.bicliques))]

LatticeOfTrees(nl, nr, trees) ==
    IF \E c \in 1..nl : ~has_neighbor_ordering_property(trees[c])
    THEN ClearedLattice
    ELSE LatticeOf(trees,
             LinkTrees([edge_max_biclique |->
                            [e \in (1..nl) \X (1..nr) |-> NoBiclique],
                        biclique_index |-> <<>>, bicliques |-> <<>>,
                        lattice |-> <<>>], trees, 1))

\* GaloisLattice::GaloisLattice(graph) for the block's partitions 1..nl and
\* 1..nr and the (simplified) edge set E.
GaloisLattice(nl, nr, E) ==
    LatticeOfTrees(nl, nr, [c \in 1..nl |-> CenteredGaloisTree(E, c)])

\* GaloisLattice::is_domino_free
is_domino_free(gl) == gl.galois_trees # <<>>

\* -------------------------------------------------------- BicliqueCover
VARIABLES
    blk,         \* BicliqueCover::graph, the bipartite block
    cov_pc,      \* where BicliqueCover::get() is
    simplified,  \* the edges of the SubtractiveHandleGraph `simplified`
    galois,      \* the GaloisLattice built by domino_free_cover
    return_val,  \* get()'s return_val: a sequence of <<left set, right set>>
    cov_error,   \* the exception that left get(), or "none"
    ss_call      \* the locals of the running simplify_side call

cov_vars == <<blk, cov_pc, simplified, galois, return_val, cov_error, ss_call>>

\* ------------------------------------------------------- splice_subgraphs
VARIABLES
    sp_edges,         \* the edges of gfa_graph
    sp_seq,           \* the sequence of every node of gfa_graph
    subgraphs,        \* Bluntifier::subgraphs: the sequence of each one's node
    sp_max_id,        \* gfa_graph.max_node_id()
    sp_oo,            \* overlapping_overlap_nodes and child_to_parent
    sp_paths,         \* paths_per_handle of every subgraph: [sub, side, handle]
    sp_sub,           \* the subgraph being spliced
    sp_side,          \* the side being iterated
    sp_todo,          \* the handles of that side not yet visited
    sp_begin,         \* the first and last node of the copied paths
    to_be_destroyed,  \* Bluntifier::to_be_destroyed
    sp_pc,            \* where splice_subgraphs is
    sp_error,         \* the node id in the runtime_error's message, or 0
    sp_last           \* the terminus visited last and what it met

sp_vars == <<sp_edges, sp_seq, subgraphs, sp_max_id, sp_oo, sp_paths, sp_sub, sp_side, sp_todo,
             sp_begin, to_be_destroyed, sp_pc, sp_error, sp_last>>

VARIABLES
    gfa_file,              \* the GFA file at gfa_path
    bl_pc,                 \* where bluntify is
    adjacency_components,  \* Bluntifier::adjacency_components
    bl_i,                  \* the component compute_biclique_cover is called on next
    bicliques,             \* Bluntifier::bicliques: a list of edges per biclique
    gfa_final,             \* the file handle_graph_to_gfa writes at the end
    provenance_map,        \* Bluntifier::provenance_map, as records
    provenance_table,      \* the file write_provenance writes: node -> lines
    workers,               \* the locals of each concurrent compute_biclique_cover
    biclique_mutex         \* Bluntifier::biclique_mutex: its holder, or NoWorker

bl_vars == <<gfa_file, bl_pc, adjacency_components, bl_i, bicliques, gfa_final,
             provenance_map, provenance_table, workers, biclique_mutex>>

VARIABLES
    ni_bicliques,            \* NodeInfo::bicliques: the edges of every biclique
    ni_overlaps,             \* NodeInfo::overlaps: edge -> the two lengths of its CIGAR
    node_to_biclique_edge,   \* node -> the (biclique, edge) indexes of its edges
    child_to_parent,         \* duplicated terminus -> (parent node, side)
    ni_node_id,                 \* NodeInfo::node_id
    ni_factored_overlaps,    \* NodeInfo::factored_overlaps: side -> biclique -> entries
    ni_graph,                \* the graph duplicate_termini edits: node lengths, edges
    ni_skipped,              \* the nodes whose right side was skipped as trivial
    ni_pc                    \* how far the indexing and the factoring have come

ni_vars == <<ni_bicliques, ni_overlaps, node_to_biclique_edge, child_to_parent,
             ni_node_id, ni_factored_overlaps, ni_graph, ni_skipped, ni_pc>>

NiIdle ==
    /\ ni_bicliques = <<>>
    /\ ni_overlaps = <<>>
    /\ node_to_biclique_edge = <<>>
    /\ child_to_parent = <<>>
    /\ ni_node_id = 0
    /\ ni_factored_overlaps = <<>>
    /\ ni_graph = <<>>
    /\ ni_skipped = {}
    /\ ni_pc = "idle"

VARIABLES
    sep_lattice,   \* GaloisLattice::lattice as separator() finds it
    menger_graph,  \* separator()'s menger_graph: index -> adjacency list
    sep_return,    \* what separator() returned
    sep_pc         \* how far the separator() call has come

sep_vars == <<sep_lattice, menger_graph, sep_return, sep_pc>>

SepIdle ==
    /\ sep_lattice = [lattice |-> <<>>]
    /\ menger_graph = <<>>
    /\ sep_return = <<>>
    /\ sep_pc = "idle"

vars == <<om_vars, cov_vars, sp_vars, bl_vars, ni_vars, sep_vars>>

RECURSIVE Reached(_, _)
\* The edges connected to the edges F within E.
Reached(E, F) ==
    LET G == {e \in E : \E f \in F : e[1] = f[1] \/ e[2] = f[2]}
    IN IF G = F THEN F ELSE Reached(E, G)

\* A bipartite block of an adjacency component: every node has an edge and
\* the block is connected.
IsBlock(nl, nr, E) ==
    /\ E # {}
    /\ \A l \in 1..nl : \E r \in 1..nr : <<l, r>> \in E
    /\ \A r \in 1..nr : \E l \in 1..nl : <<l, r>> \in E
    /\ Reached(E, {CHOOSE e \in E : TRUE}) = E

SmallBlocks ==
    UNION {{[nl |-> nl, nr |-> nr, E |-> E] :
               E \in {F \in SUBSET ((1..nl) \X (1..nr)) : IsBlock(nl, nr, F)}} :
           nl \in 1..MaxLeft, nr \in 1..MaxRight}

\* The complete block on BigLeft and BigRight nodes.
BigBlock == [nl |-> BigLeft, nr |-> BigRight, E |-> (1..BigLeft) \X (1..BigRight)]

Blocks == SmallBlocks \cup {BigBlock}

\* "TODO: magic number" of BicliqueCover::get
Threshold == 65536

\* edge_count of BicliqueCover::get: the sum of the left degrees.
edge_count(b) == Cardinality(b.E)

\* The test of BicliqueCover::get for the exact algorithm; the size_t
\* product stays far below 2^64 for every block of the model.
WithinThreshold(b) == edge_count(b) * (b.nl + b.nr) <= Threshold

\* 2 * lattice.size() - 2 in size_t, as a representative (negative: wrapped).
MengerSize(gl) == 2 * Len(gl.lattice) - 2

\* The lattice nodes that are neither the join nor the meet.
Interior(gl) == 1..(Len(gl.lattice) - 2)

\* GaloisLattice::biclique_cover for the separator `sep`.
biclique_cover(gl, sep) ==
    [x \in 1..Len(sep) |->
        biclique(gl.galois_trees[gl.bicliques[sep[x]][1]], gl.bicliques[sep[x]][2])]

\* Whether every edge of b is in some biclique of the cover.
Covers(cover, b) ==
    \A e \in b.E : \E x \in 1..Len(cover) :
        e[1] \in cover[x][1] /\ e[2] \in cover[x][2]

OMIdle ==
    /\ overlaps = <<>>
    /\ om_call = "none"
    /\ om_arg = End
    /\ om_edge = End
    /\ om_iter = End
    /\ om_thrown = FALSE

\* No simplify_side call running.
NoSimplify == SimplifyInit("L", [nl |-> 0, nr |-> 0, E |-> {}], {})

CovIdle ==
    /\ blk = [nl |-> 0, nr |-> 0, E |-> {}]
    /\ cov_pc = "idle"
    /\ simplified = {}
    /\ galois = ClearedLattice
    /\ return_val = <<>>
    /\ cov_error = "none"
    /\ ss_call = NoSimplify

NoTerminus ==
    [acted |-> FALSE, handle |-> <<0, FALSE>>, side |-> 0, edges |-> {},
     destroyed |-> {}, thrown |-> FALSE]

SpIdle ==
    /\ sp_edges = {}
    /\ sp_seq = <<>>
    /\ subgraphs = <<>>
    /\ sp_max_id = 0
    /\ sp_oo = [overlapping_children |-> {}, parent_path |-> {}]
    /\ sp_paths = {}
    /\ sp_sub = 0
    /\ sp_side = 0
    /\ sp_todo = {}
    /\ sp_begin = <<0, FALSE>>
    /\ to_be_destroyed = {}
    /\ sp_pc = "idle"
    /\ sp_error = 0
    /\ sp_last = NoTerminus

\* The file not written yet.
NoGfa == [written |-> FALSE, seq |-> <<>>, edges |-> {}]

\* write_edge_to_gfa writes "0M" on every L line.
WrittenOverlap == 0

\* handle_graph_to_gfa: an S line per node and an L line per edge.
handle_graph_to_gfa(seq, E) ==
    [written |-> TRUE, seq |-> seq, edges |-> E]

\* The value of biclique_mutex while no worker holds it.
NoWorker == 0

BlIdle ==
    /\ gfa_file = [n |-> 0, links |-> {}]
    /\ bl_pc = "idle"
    /\ adjacency_components = <<>>
    /\ bl_i = 0
    /\ bicliques = <<>>
    /\ gfa_final = NoGfa
    /\ provenance_map = {}
    /\ provenance_table = <<>>
    /\ workers = <<>>
    /\ biclique_mutex = NoWorker

\* ------------------------------------------------- OverlapMap, the actions
OMInit == OMIdle /\ CovIdle /\ SpIdle /\ BlIdle /\ NiIdle /\ SepIdle

Insert ==
    \E e \in Edges, c \in Cigars :
        /\ Cardinality(DOMAIN overlaps) < MaxEntries \/ e \in DOMAIN overlaps
        /\ overlaps' = insert(overlaps, e, c)
        /\ om_call' = "insert"
        /\ om_arg' = End
        /\ om_edge' = End
        /\ om_iter' = End
        /\ om_thrown' = FALSE
        /\ UNCHANGED <<cov_vars, sp_vars, bl_vars, ni_vars, sep_vars>>

UpdateEdge ==
    \E old \in DOMAIN overlaps, new \in Edges :
        /\ overlaps' = update_edge(overlaps, old, new)
        /\ om_call' = "update_edge"
        /\ om_arg' = End
        /\ om_edge' = End
        /\ om_iter' = End
        /\ om_thrown' = FALSE
        /\ UNCHANGED <<cov_vars, sp_vars, bl_vars, ni_vars, sep_vars>>

CanonicalizeAndFind ==
    \E e \in Edges :
        LET r == canonicalize_and_find(overlaps, e) IN
        /\ om_call' = "canonicalize_and_find"
        /\ om_arg' = e
        /\ om_edge' = r.edge
        /\ om_iter' = r.iter
        /\ om_thrown' = r.thrown
        /\ UNCHANGED overlaps
        /\ UNCHANGED <<cov_vars, sp_vars, bl_vars, ni_vars, sep_vars>>

OMNext == Insert \/ UpdateEdge \/ CanonicalizeAndFind

SpecOverlap == OMInit /\ [][OMNext]_vars

\* ---------------------------------------------- BicliqueCover, the actions
CovInit ==
    /\ OMIdle
    /\ SpIdle
    /\ BlIdle
    /\ NiIdle
    /\ SepIdle
    /\ blk \in Blocks
    /\ cov_pc = "get"
    /\ simplified = {}
    /\ galois = ClearedLattice
    /\ return_val = <<>>
    /\ cov_error = "none"
    /\ ss_call = NoSimplify

\* BicliqueCover::get up to the size test.
Get ==
    /\ cov_pc = "get"
    /\ cov_pc' = IF WithinThreshold(blk) THEN "domino_free_cover"
                 ELSE "heuristic_cover"
    /\ UNCHANGED <<blk, simplified, galois, return_val, cov_error>>
    /\ UNCHANGED ss_call
    /\ UNCHANGED <<om_vars, sp_vars, bl_vars, ni_vars, sep_vars>>

\* domino_free_cover: simplify().
Simplify ==
    /\ cov_pc = "domino_free_cover"
    /\ simplified' = blk.E \ simplify(blk)
    /\ cov_pc' = "galois_lattice"
    /\ UNCHANGED <<blk, galois, return_val, cov_error>>
    /\ UNCHANGED ss_call
    /\ UNCHANGED <<om_vars, sp_vars, bl_vars, ni_vars, sep_vars>>

\* domino_free_cover: the GaloisLattice of the simplified graph, over the
\* block's own partition.
BuildLattice ==
    /\ cov_pc = "galois_lattice"
    /\ galois' = GaloisLattice(blk.nl, blk.nr, simplified)
    /\ cov_pc' = "biclique_cover"
    /\ UNCHANGED <<blk, simplified, return_val, cov_error>>
    /\ UNCHANGED ss_call
    /\ UNCHANGED <<om_vars, sp_vars, bl_vars, ni_vars, sep_vars>>

\* The end of get(): an empty return_val goes on to heuristic_cover.
AfterExact(cover) ==
    /\ return_val' = cover
    /\ cov_pc' = IF cover = <<>> THEN "heuristic_cover" ELSE "returned"
    /\ cov_error' = cov_error

\* GaloisLattice::biclique_cover and separator.  The vector of
\* 2 * lattice.size() - 2 lists cannot be made when the size has wrapped
\* (std::length_error); otherwise menger_graph[source] is read one past the
\* end of that vector: the call crashes, or does not return, or returns
\* some list of lattice nodes.
Separator ==
    /\ cov_pc = "biclique_cover"
    /\ IF MengerSize(galois) < 0
       THEN /\ cov_pc' = "thrown"
            /\ cov_error' = "length_error"
            /\ return_val' = return_val
       ELSE \/ /\ cov_pc' = "crashed"
               /\ UNCHANGED <<return_val, cov_error>>
            \/ /\ cov_pc' = "hung"
               /\ UNCHANGED <<return_val, cov_error>>
            \/ \E S \in SUBSET Interior(galois) :
                   AfterExact(biclique_cover(galois, SetToSeq(S)))
    /\ UNCHANGED <<blk, simplified, galois>>
    /\ UNCHANGED ss_call
    /\ UNCHANGED <<om_vars, sp_vars, bl_vars, ni_vars, sep_vars>>

\* BicliqueCover::heuristic_cover and the return of get().
HeuristicCover ==
    /\ cov_pc = "heuristic_cover"
    /\ return_val' = <<>>
    /\ cov_pc' = "returned"
    /\ UNCHANGED <<blk, simplified, galois, cov_error>>
    /\ UNCHANGED ss_call
    /\ UNCHANGED <<om_vars, sp_vars, bl_vars, ni_vars, sep_vars>>

CovNext == Get \/ Simplify \/ BuildLattice \/ Separator \/ HeuristicCover

SpecCover == CovInit /\ [][CovNext]_vars

\* ------------------------------------------- simplify_side, step by step
SsInit ==
    /\ OMIdle
    /\ SpIdle
    /\ BlIdle
    /\ NiIdle
    /\ SepIdle
    /\ blk \in SmallBlocks
    /\ cov_pc = "simplify"
    /\ simplified = {}
    /\ galois = ClearedLattice
    /\ return_val = <<>>
    /\ cov_error = "none"
    /\ ss_call = SimplifyInit("L", blk, {})

\* The scan for a node with successors ("look for a simplification").
SelectNode ==
    /\ cov_pc = "simplify"
    /\ ss_call.phase = "scan"
    /\ ss_call' = SimplifyStep(ss_call)
    /\ UNCHANGED <<blk, cov_pc, simplified, galois, return_val, cov_error>>
    /\ UNCHANGED <<om_vars, sp_vars, bl_vars, ni_vars, sep_vars>>

\* The loop over j ("find the next successor").
NextSuccessor ==
    /\ cov_pc = "simplify"
    /\ ss_call.phase = "pair"
    /\ ss_call' = SimplifyStep(ss_call)
    /\ UNCHANGED <<blk, cov_pc, simplified, galois, return_val, cov_error>>
    /\ UNCHANGED <<om_vars, sp_vars, bl_vars, ni_vars, sep_vars>>

\* The body of follow_edges for one neighbour of i: subtract_edge and the
\* update of the counters; or the end of follow_edges.
SubtractEdge ==
    /\ cov_pc = "simplify"
    /\ ss_call.phase = "edges"
    /\ ss_call' = SimplifyStep(ss_call)
    /\ UNCHANGED <<blk, cov_pc, simplified, galois, return_val, cov_error>>
    /\ UNCHANGED <<om_vars, sp_vars, bl_vars, ni_vars, sep_vars>>

\* simplify(): the second call of simplify_side, on the same graph.
SecondPartition ==
    /\ cov_pc = "simplify"
    /\ ss_call.phase = "done"
    /\ ss_call.side = "L"
    /\ ss_call' = SimplifyInit("R", blk, ss_call.removed)
    /\ UNCHANGED <<blk, cov_pc, simplified, galois, return_val, cov_error>>
    /\ UNCHANGED <<om_vars, sp_vars, bl_vars, ni_vars, sep_vars>>

\* simplify() returns the simplified graph.
ReturnSimplified ==
    /\ cov_pc = "simplify"
    /\ ss_call.phase = "done"
    /\ ss_call.side = "R"
    /\ simplified' = blk.E \ ss_call.removed
    /\ cov_pc' = "simplified"
    /\ UNCHANGED <<blk, galois, return_val, cov_error, ss_call>>
    /\ UNCHANGED <<om_vars, sp_vars, bl_vars, ni_vars, sep_vars>>

SsNext ==
    SelectNode \/ NextSuccessor \/ SubtractEdge \/ SecondPartition \/ ReturnSimplified

SpecSimplify == SsInit /\ [][SsNext]_vars

\* ------------------------------------------------------- splice_subgraphs
SpNodes == 1..MaxSpNode
SpHandles == SpNodes \X BOOLEAN

\* HandleGraph::follow_edges(h, go_left) over edges <<left, right>>: an edge
\* <<a, b>> is also the edge <<flip(b), flip(a)>>.
follow_edges(E, h, go_left) ==
    IF go_left
    THEN {e[1] : e \in {x \in E : x[2] = h}}
            \cup {flip(e[2]) : e \in {x \in E : x[1] = flip(h)}}
    ELSE {e[2] : e \in {x \in E : x[1] = h}}
            \cup {flip(e[1]) : e \in {x \in E : x[2] = flip(h)}}

\* Bluntifier::is_oo_node_child: the node is a child of an overlapping
\* overlap node and one of its overlapping children.
is_oo_node_child(oo, node_id) ==
    /\ node_id \in oo.child_to_parent
    /\ node_id \in oo.overlapping_children

\* Bluntifier::is_oo_node_parent: the node is a child of an overlapping
\* overlap node and on its parent path.
is_oo_node_parent(oo, node_id) ==
    /\ node_id \in oo.child_to_parent
    /\ node_id \in oo.parent_path

\* parent_handles of splice_subgraphs: the handles on the far side of the
\* terminus from the biclique, those scheduled for destruction left out.
parent_handles(E, destroyed, handle, side) ==
    {h \in follow_edges(E, handle, side = 0) : get_id(h) \notin destroyed}

\* A throw condition that forgets the overlapping overlap parents.
DanglingTerminus_noparent(is_oo_child, is_oo_parent, parents) ==
    ~is_oo_child /\ parents = {}

\* The condition under which splice_subgraphs throws "biclique terminus does
\* not have any parent".
DanglingTerminus(is_oo_child, is_oo_parent, parents) ==
    ~is_oo_child /\ parents = {} /\ ~is_oo_parent

\* Edges made from each parent to the path whatever the side.
Spliced_sameway(E, is_oo_child, parents, side, path_node) ==
    IF is_oo_child THEN E
    ELSE E \cup {<<p, path_node>> : p \in parents}

\* The edges made for one terminus: from each parent to the start of the
\* terminus' path (left side of the biclique), or from the end of its path
\* to each parent (right side).
Spliced(E, is_oo_child, parents, side, path_node) ==
    IF is_oo_child THEN E
    ELSE IF side = 0 THEN E \cup {<<p, path_node>> : p \in parents}
    ELSE E \cup {<<path_node, p>> : p \in parents}

\* The test without the flipped handle.
OnlyOnThisSide_asgiven(paths, sub, side, handle) ==
    [sub |-> sub, side |-> 1 - side, handle |-> handle] \notin paths

\* Whether the terminus is on no path of the other side of its subgraph.
OnlyOnThisSide(paths, sub, side, handle) ==
    /\ [sub |-> sub, side |-> 1 - side, handle |-> handle] \notin paths
    /\ [sub |-> sub, side |-> 1 - side, handle |-> flip(handle)] \notin paths

PathsOf(paths, sub, side) ==
    {p.handle : p \in {q \in paths : q.sub = sub /\ q.side = side}}

\* splice_subgraphs as a function of the order in which the subgraphs are
\* taken.  The k-th subgraph copied gets the id MaxSpNode + k; the termini
\* of a side are visited in the order of their handles (node id, forward
\* before reverse).
HandleRank(h) == 2 * get_id(h) + (IF get_is_reverse(h) THEN 1 ELSE 0)

FirstHandle(S) == CHOOSE h \in S : \A g \in S : HandleRank(h) <= HandleRank(g)

RECURSIVE splice_side(_, _, _, _, _, _, _)
\* The loop over paths_per_handle[side] of subgraph sub, from the termini
\* in todo on; st holds the edges, to_be_destroyed and whether it threw.
splice_side(st, oo, paths, sub, side, begin, todo) ==
    IF todo = {} \/ st.thrown THEN st
    ELSE LET handle == FirstHandle(todo)
             node_id == get_id(handle)
             is_oo_child == is_oo_node_child(oo, node_id)
             is_oo_parent == is_oo_node_parent(oo, node_id)
             parents == parent_handles(st.edges, st.destroyed, handle, side)
         IN IF DanglingTerminus(is_oo_child, is_oo_parent, parents)
            THEN [st EXCEPT !.thrown = TRUE]
            ELSE splice_side(
                     [edges |-> Spliced(st.edges, is_oo_child, parents, side, begin),
                      destroyed |-> IF OnlyOnThisSide(paths, sub, side, handle)
                                    THEN st.destroyed \cup {node_id}
                                    ELSE st.destroyed,
                      thrown |-> FALSE],
                     oo, paths, sub, side, begin, todo \ {handle})

RECURSIVE splice_subgraphs(_, _, _, _, _)
\* Bluntifier::splice_subgraphs over the subgraphs order[k], order[k + 1], ...
splice_subgraphs(st, oo, paths, order, k) ==
    IF k > Len(order) \/ st.thrown THEN st
    ELSE LET begin == <<MaxSpNode + k, FALSE>>
             left == splice_side(st, oo, paths, order[k], 0, begin,
                                 PathsOf(paths, order[k], 0))
             right == splice_side(left, oo, paths, order[k], 1, begin,
                                  PathsOf(paths, order[k], 1))
         IN splice_subgraphs(right, oo, paths, order, k + 1)

SpInit ==
    /\ OMIdle
    /\ CovIdle
    /\ BlIdle
    /\ NiIdle
    /\ SepIdle
    /\ sp_edges \in {F \in SUBSET (SpHandles \X SpHandles) :
                        Cardinality(F) <= MaxSpEdges}
    /\ sp_seq = [n \in SpNodes |-> <<>>]
    /\ subgraphs = [i \in 1..MaxSubgraphs |-> <<"a">>]
    /\ sp_max_id = MaxSpNode
    /\ \E c \in SUBSET SpNodes, p \in SUBSET SpNodes :
           sp_oo = [child_to_parent |-> c \cup p, overlapping_children |-> c,
                    parent_path |-> p]
    /\ sp_paths \in {P \in SUBSET [sub : 1..MaxSubgraphs, side : {0, 1},
                                   handle : SpHandles] :
                        Cardinality(P) <= MaxTermini}
    /\ sp_sub = 1
    /\ sp_side = 0
    /\ sp_todo = {}
    /\ sp_begin = <<0, FALSE>>
    /\ to_be_destroyed = {}
    /\ sp_pc = "copy"
    /\ sp_error = 0
    /\ sp_last = NoTerminus

\* The subgraph's node ids are incremented by max_node_id and the subgraph
\* is copied into gfa_graph; a subgraph here is one node that every path
\* begins and ends on.
CopySubgraph ==
    /\ sp_pc = "copy"
    /\ sp_max_id' = IF subgraphs[sp_sub] = <<>> THEN sp_max_id ELSE sp_max_id + 1
    /\ sp_seq' = IF subgraphs[sp_sub] = <<>> THEN sp_seq
                  ELSE [n \in DOMAIN sp_seq \cup {sp_max_id + 1} |->
                          IF n = sp_max_id + 1 THEN subgraphs[sp_sub] ELSE sp_seq[n]]
    /\ sp_begin' = <<sp_max_id + 1, FALSE>>
    /\ sp_side' = 0
    /\ sp_todo' = PathsOf(sp_paths, sp_sub, 0)
    /\ sp_pc' = "paths"
    /\ UNCHANGED <<sp_edges, subgraphs, sp_oo, sp_paths, sp_sub,
                   to_be_destroyed, sp_error, sp_last>>
    /\ UNCHANGED <<om_vars, cov_vars, bl_vars, ni_vars, sep_vars>>

\* The body of the loop over paths_per_handle[side] for one terminus.
SpliceTerminus ==
    /\ sp_pc = "paths"
    /\ \E handle \in sp_todo :
         LET node_id == get_id(handle)
             is_oo_child == is_oo_node_child(sp_oo, node_id)
             is_oo_parent == is_oo_node_parent(sp_oo, node_id)
             parents == parent_handles(sp_edges, to_be_destroyed, handle, sp_side)
             throws == DanglingTerminus(is_oo_child, is_oo_parent, parents)
         IN /\ sp_last' = [acted |-> TRUE, handle |-> handle, side |-> sp_side,
                           edges |-> sp_edges, destroyed |-> to_be_destroyed,
                           thrown |-> throws]
            /\ IF throws
               THEN /\ sp_pc' = "thrown"
                    /\ sp_error' = node_id
                    /\ UNCHANGED <<sp_edges, to_be_destroyed, sp_todo>>
               ELSE /\ sp_edges' = Spliced(sp_edges, is_oo_child, parents,
                                           sp_side, sp_begin)
                    /\ to_be_destroyed' =
                          IF OnlyOnThisSide(sp_paths, sp_sub, sp_side, handle)
                          THEN to_be_destroyed \cup {node_id}
                          ELSE to_be_destroyed
                    /\ sp_todo' = sp_todo \ {handle}
                    /\ UNCHANGED <<sp_pc, sp_error>>
    /\ UNCHANGED <<sp_seq, subgraphs, sp_max_id, sp_oo, sp_paths, sp_sub,
                   sp_side, sp_begin>>
    /\ UNCHANGED <<om_vars, cov_vars, bl_vars, ni_vars, sep_vars>>

\* The loops' headers: the other side, then the next subgraph.
NextSide ==
    /\ sp_pc = "paths"
    /\ sp_todo = {}
    /\ IF sp_side = 0
       THEN /\ sp_side' = 1
            /\ sp_todo' = PathsOf(sp_paths, sp_sub, 1)
            /\ UNCHANGED <<sp_sub, sp_pc>>
       ELSE /\ sp_pc' = IF sp_sub < Len(subgraphs) THEN "copy" ELSE "done"
            /\ sp_sub' = IF sp_sub < Len(subgraphs) THEN sp_sub + 1 ELSE sp_sub
            /\ UNCHANGED <<sp_side, sp_todo>>
    /\ UNCHANGED <<sp_edges, sp_seq, subgraphs, sp_max_id, sp_oo, sp_paths,
                   sp_begin, to_be_destroyed, sp_error, sp_last>>
    /\ UNCHANGED <<om_vars, cov_vars, bl_vars, ni_vars, sep_vars>>

SpNext == CopySubgraph \/ SpliceTerminus \/ NextSide

SpecSplice == SpInit /\ [][SpNext]_vars

\* ---------------------------------------------------- Bluntifier::bluntify
\* The input GFA files: nodes 1..n, every sequence three bases long and
\* beginning and ending with "a", and L lines between forward handles whose
\* CIGAR is "LinkOverlap M".  Of a file only the links are kept in gfa_file;
\* the sequences follow from the node ids.
Bases == <<"c", "g", "t">>

SequenceOf(n) == <<"a", Bases[(n % 3) + 1], "a">>

Fwd(n) == <<n, FALSE>>

GfaFiles(n, max_links) ==
    {[n |-> n, links |-> L] :
        L \in {F \in SUBSET ((1..n) \X (1..n)) : Cardinality(F) <= max_links}}

SmallFiles == UNION {GfaFiles(n, MaxLinks) : n \in 1..MaxGfaNodes}

\* Every node linked to every node, itself included: one adjacency
\* component above the size test of BicliqueCover::get.
BigFile == [n |-> BigNodes, links |-> (1..BigNodes) \X (1..BigNodes)]

Complement(c) ==
    CASE c = "a" -> "t" [] c = "t" -> "a" [] c = "c" -> "g" [] c = "g" -> "c"

ReverseComplement(s) == [i \in 1..Len(s) |-> Complement(s[Len(s) + 1 - i])]

\* HandleGraph::get_sequence
get_sequence(seq, h) ==
    IF get_is_reverse(h) THEN ReverseComplement(seq[get_id(h)]) ELSE seq[get_id(h)]

\* gfa_to_handle_graph: the nodes, the edges and the OverlapMap of a file.
gfa_to_handle_graph(file) ==
    LET E == {<<Fwd(l[1]), Fwd(l[2])>> : l \in file.links}
    IN [seq |-> [n \in 1..file.n |-> SequenceOf(n)],
        edges |-> E,
        overlaps |-> [e \in E |-> LinkOverlap]]

RECURSIVE ComponentOf(_, _)
\* The class of the handles S under h ~ flip(h') for every edge (h, h').
ComponentOf(E, S) ==
    LET T == S \cup {flip(e[2]) : e \in {x \in E : x[1] \in S}}
               \cup {e[1] : e \in {x \in E : flip(x[2]) \in S}}
    IN IF T = S THEN S ELSE ComponentOf(E, T)

HandleKey(h) == 2 * get_id(h) + (IF get_is_reverse(h) THEN 1 ELSE 0)

RECURSIVE OrderComponents(_)
OrderComponents(C) ==
    IF C = {} THEN <<>>
    ELSE LET first == CHOOSE c \in C : \A d \in C :
                          Min({HandleKey(h) : h \in c}) <= Min({HandleKey(h) : h \in d})
         IN <<first>> \o OrderComponents(C \ {first})

\* compute_all_adjacency_components
compute_all_adjacency_components(n, E) ==
    OrderComponents({ComponentOf(E, {h}) : h \in (1..n) \X BOOLEAN})

\* decompose_into_bipartite_blocks: with links between forward handles only
\* a component is one bipartite block, the forward handles on the left and
\* the reverse handles on the right; left l and right r are adjacent when
\* (l, flip(r)) is an edge of gfa_graph.
BlockOf(E, component) ==
    LET left == SetToSeq({get_id(h) : h \in {x \in component : ~get_is_reverse(x)}})
        right == SetToSeq({get_id(h) : h \in {x \in component : get_is_reverse(x)}})
    IN [left |-> left, right |-> right, nl |-> Len(left), nr |-> Len(right),
        E |-> {p \in (1..Len(left)) \X (1..Len(right)) :
                  <<Fwd(left[p[1]]), flip(<<right[p[2]], TRUE>>)>> \in E}]

\* BicliqueCover::heuristic_cover
heuristic_cover(b) == <<>>

\* BicliqueCover::get, every way it can end: what it returns, or the
\* std::length_error of separator(), or what reading past menger_graph
\* can do.
get_outcomes(b) ==
    IF WithinThreshold(b)
    THEN LET gl == GaloisLattice(b.nl, b.nr, b.E \ simplify(b))
         IN IF MengerSize(gl) < 0
            THEN {[kind |-> "thrown", cover |-> <<>>]}
            ELSE {[kind |-> "crashed", cover |-> <<>>],
                  [kind |-> "hung", cover |-> <<>>]}
                 \cup {[kind |-> "returned",
                        cover |-> IF S = {} THEN heuristic_cover(b)
                                  ELSE biclique_cover(gl, SetToSeq(S))] :
                          S \in SUBSET Interior(gl)}
    ELSE {[kind |-> "returned", cover |-> heuristic_cover(b)]}

BicliqueSize(bc) == Cardinality(bc[1]) * Cardinality(bc[2])

\* The orders std::sort can leave the cover in: descending by size.
SortedOrders(cover) ==
    IF cover = <<>> THEN {<<>>}
    ELSE {p \in Permutations(DOMAIN cover) :
             \A i, j \in DOMAIN cover :
                 i < j => BicliqueSize(cover[p[i]]) >= BicliqueSize(cover[p[j]])}

\* The edges (left, flip(right)) of a biclique in the order of the two loops.
BicliqueEdges(b, bc) ==
    LET W == b.nr + 1
        keys == SetToSeq({i * W + j : i \in bc[1], j \in bc[2]})
    IN [x \in 1..Len(keys) |->
           <<Fwd(b.left[keys[x] \div W]), flip(<<b.right[keys[x] % W], TRUE>>)>>]

RECURSIVE DedupEdges(_, _, _)
\* The inner loops of deduplicate_and_canonicalize_biclique_cover.
DedupEdges(m, es, acc) ==
    IF es = <<>> \/ acc.thrown THEN acc
    ELSE LET r == canonicalize_and_find(m, Head(es))
         IN IF r.thrown THEN [acc EXCEPT !.thrown = TRUE]
            ELSE IF r.edge \in acc.processed THEN DedupEdges(m, Tail(es), acc)
            ELSE DedupEdges(m, Tail(es),
                     [acc EXCEPT !.processed = @ \cup {r.edge},
                                 !.cover[Len(acc.cover)] = Append(@, r.iter)])

RECURSIVE DedupBicliques(_, _, _, _, _)
DedupBicliques(m, b, cover, order, acc) ==
    IF order = <<>> \/ acc.thrown THEN acc
    ELSE DedupBicliques(m, b, cover, Tail(order),
             DedupEdges(m, BicliqueEdges(b, cover[Head(order)]),
                        [acc EXCEPT !.cover = Append(@, <<>>)]))

\* deduplicate_and_canonicalize_biclique_cover, the cover sorted as `order`.
deduplicate_and_canonicalize_biclique_cover(m, b, cover, order) ==
    DedupBicliques(m, b, cover, order,
                   [processed |-> {}, cover |-> <<>>, thrown |-> FALSE])

\* ------------------------------------------------ the terminus duplication
\* Node ids of the children made for biclique b of node n, of n input nodes.
PrefixChild(N, n, b) == N + 2 * N * (b - 1) + n
SuffixChild(N, n, b) == N + 2 * N * (b - 1) + N + n

\* The bicliques with an overlap on the left (side 0) or right (side 1) of
\* node n: those with an edge into n, or out of n.
BicliquesOnSide(bcs, n, side) ==
    {b \in DOMAIN bcs : \E j \in DOMAIN bcs[b] :
        get_id(bcs[b][j][IF side = 0 THEN 2 ELSE 1]) = n}

\* The outermost piece of node n on a side after the duplication.
OuterPiece(bcs, N, n, side) ==
    IF BicliquesOnSide(bcs, n, side) = {} THEN n
    ELSE IF side = 0 THEN PrefixChild(N, n, Min(BicliquesOnSide(bcs, n, 0)))
    ELSE SuffixChild(N, n, Min(BicliquesOnSide(bcs, n, 1)))

\* The edge that replaces edge e of biclique b: from the suffix child of
\* its left node to the prefix child of its right node.
RedirectedEdge(N, b, e) ==
    <<Fwd(SuffixChild(N, get_id(e[1]), b)), Fwd(PrefixChild(N, get_id(e[2]), b))>>

RECURSIVE UpdateEdges(_, _, _, _)
\* OverlapMap::update_edge for every edge of the bicliques from b on.
UpdateEdges(m, bcs, N, b) ==
    IF b > Len(bcs) THEN m
    ELSE UpdateEdges(
             [k \in (DOMAIN m \ Range(bcs[b]))
                     \cup {RedirectedEdge(N, b, e) : e \in Range(bcs[b])} |->
                 IF k \in DOMAIN m \ Range(bcs[b]) THEN m[k]
                 ELSE m[CHOOSE e \in Range(bcs[b]) : RedirectedEdge(N, b, e) = k]],
             bcs, N, b + 1)

\* Duplicator::duplicate_all_node_termini: every node is divided into a
\* prefix child per biclique on its left, the remaining piece (which keeps
\* the node's id) and a suffix child per biclique on its right; the edges
\* of the bicliques are redirected to the children and re-keyed in the
\* OverlapMap; every other edge stays on the outermost pieces.
duplicate_all_node_termini(seq, E, m, bcs, N) ==
    LET pre == {<<n, b>> \in (1..N) \X (DOMAIN bcs) : b \in BicliquesOnSide(bcs, n, 0)}
        suf == {<<n, b>> \in (1..N) \X (DOMAIN bcs) : b \in BicliquesOnSide(bcs, n, 1)}
        covered == UNION {Range(bcs[b]) : b \in DOMAIN bcs}
        Cut(n, side) ==
            IF BicliquesOnSide(bcs, n, side) = {} THEN 0
            ELSE Max({m[e] : e \in {x \in covered :
                          get_id(x[IF side = 0 THEN 2 ELSE 1]) = n}})
        ParentOf(c) == ((c - 1) % N) + 1
        IsPrefix(c) == \E p \in pre : PrefixChild(N, p[1], p[2]) = c
        ids == (1..N) \cup {PrefixChild(N, p[1], p[2]) : p \in pre}
                      \cup {SuffixChild(N, p[1], p[2]) : p \in suf}
    IN [seq |-> [c \in ids |->
                    IF c <= N
                    THEN SubSeq(seq[c], 1 + Cut(c, 0), Len(seq[c]) - Cut(c, 1))
                    ELSE IF IsPrefix(c)
                    THEN SubSeq(seq[ParentOf(c)], 1, Cut(ParentOf(c), 0))
                    ELSE SubSeq(seq[ParentOf(c)],
                                Len(seq[ParentOf(c)]) - Cut(ParentOf(c), 1) + 1,
                                Len(seq[ParentOf(c)]))],
        edges |-> {RedirectedEdge(N, b, e) : <<b, e>> \in
                       UNION {{b} \X Range(bcs[b]) : b \in DOMAIN bcs}}
                  \cup {<<Fwd(PrefixChild(N, p[1], p[2])), Fwd(p[1])>> : p \in pre}
                  \cup {<<Fwd(p[1]), Fwd(SuffixChild(N, p[1], p[2]))>> : p \in suf}
                  \cup {<<Fwd(OuterPiece(bcs, N, get_id(e[1]), 1)),
                          Fwd(OuterPiece(bcs, N, get_id(e[2]), 0))>> :
                           e \in E \ covered},
        overlaps |-> UpdateEdges(m, bcs, N, 1),
        bicliques |-> [b \in DOMAIN bcs |->
                          [j \in DOMAIN bcs[b] |-> RedirectedEdge(N, b, bcs[b][j])]],
        children |-> ids \ (1..N)]

\* align_biclique_overlaps: the subgraph of a biclique is the alignment of
\* its termini, here one node holding the overlapped sequence every
\* terminus spells; a biclique without edges gives an empty subgraph.
align_biclique_overlaps(seq, bc) ==
    IF bc = <<>> THEN <<>> ELSE get_sequence(seq, bc[1][1])

\* paths_per_handle of every subgraph: the left handles of a biclique's
\* edges on side 0, the right handles on side 1.
paths_per_handle(bcs) ==
    UNION {{[sub |-> b, side |-> 0, handle |-> e[1]] : e \in Range(bcs[b])}
             \cup {[sub |-> b, side |-> 1, handle |-> e[2]] : e \in Range(bcs[b])} :
           b \in DOMAIN bcs}

\* ---------------------------------------------------- compute_provenance
\* child_to_parent: the input node a node of gfa_graph was divided from
\* (itself for the piece that keeps the node's id).
ParentNode(N, c) == IF c <= N THEN c ELSE ((c - 1) % N) + 1

\* The biclique a child was made for.
BicliqueOfChild(N, c) == ((c - N - 1) \div (2 * N)) + 1

\* The bicliques with an edge whose left (side 1) or right (side 0) handle
\* belongs to input node n, by the edges as they are after the duplication.
BicliquesOfParent(bcs, N, n, side) ==
    {b \in DOMAIN bcs : \E j \in DOMAIN bcs[b] :
        ParentNode(N, get_id(bcs[b][j][IF side = 0 THEN 2 ELSE 1])) = n}

\* The parent path of input node n, named to_string(n): its outermost left
\* child if it has one, the remaining piece, its outermost right child if
\* it has one.
ParentPath(bcs, N, n) ==
    (IF BicliquesOfParent(bcs, N, n, 0) = {} THEN <<>>
     ELSE <<PrefixChild(N, n, Min(BicliquesOfParent(bcs, N, n, 0)))>>)
    \o <<n>>
    \o (IF BicliquesOfParent(bcs, N, n, 1) = {} THEN <<>>
        ELSE <<SuffixChild(N, n, Min(BicliquesOfParent(bcs, N, n, 1)))>>)

\* The node of the subgraph of biclique b once it is copied into gfa_graph:
\* the subgraphs are copied in order, each non-empty one as the next id.
SubgraphNode(subs, max_id, b) ==
    max_id - Cardinality({x \in DOMAIN subs : subs[x] # <<>>})
           + Cardinality({x \in 1..b : subs[x] # <<>>})

\* The path of a child in gfa_graph, named to_string(child) + "_" + side:
\* the node of its biclique's subgraph.
ChildPath(subs, max_id, N, c) == <<SubgraphNode(subs, max_id, BicliqueOfChild(N, c))>>

\* A scan that makes a record for every step of a parent path.
IsSurvivingPiece_anystep(children, destroyed, id) == TRUE

\* Whether a step of a parent path gets a record: not a duplicated child
\* and not scheduled for destruction.
IsSurvivingPiece(children, destroyed, id) ==
    id \notin children /\ id \notin destroyed

RECURSIVE ScanParentPath(_, _, _, _, _, _, _)
\* The loop over the parent path of node n from step i on: the records made
\* and parent_length.
ScanParentPath(seq, children, destroyed, n, path, i, acc) ==
    IF i > Len(path) THEN acc
    ELSE LET id == path[i]
             length == Len(seq[id])
             len == acc.parent_length + length
         IN IF id \in children /\ i # 1
            THEN [acc EXCEPT !.parent_length = len]
            ELSE ScanParentPath(seq, children, destroyed, n, path, i + 1,
                    [parent_length |-> len,
                     parent_index |-> acc.parent_index + length,
                     records |->
                        IF IsSurvivingPiece(children, destroyed, id)
                        THEN acc.records \cup
                                {[node |-> id, parent |-> n,
                                  start |-> acc.parent_index,
                                  stop |-> acc.parent_index + length - 1,
                                  reversal |-> FALSE]}
                        ELSE acc.records])

\* NodeInfo::factored_overlaps[side][b] of the parent n, sorted: the
\* positions in biclique b of the edges that overlap n on that side.  All
\* overlaps of a file are equally long, and the sort leaves the entries in
\* the order of node_to_biclique_edge.
factored_overlaps(m, bcs, N, n, side, b) ==
    SetToSeq({j \in DOMAIN bcs[b] :
        LET edge == canon(m, bcs[b][j])
        IN \/ /\ ParentNode(N, get_id(edge[1])) = n
              /\ side = (IF get_is_reverse(edge[1]) THEN 0 ELSE 1)
           \/ /\ ParentNode(N, get_id(edge[2])) = n
              /\ side = (IF get_is_reverse(edge[2]) THEN 1 ELSE 0)})

\* The records made for biclique b on one side of parent n: the child whose
\* path is scanned is found from the edge of the longest overlap, its left
\* handle when that is a child of n and its right handle otherwise.
BicliqueRecords(seq, subs, max_id, m, bcs, N, n, parent_length, side, b) ==
    LET overlap_infos == factored_overlaps(m, bcs, N, n, side, b)
        canonical_edge == canon(m, bcs[b][overlap_infos[1]])
        length == m[canonical_edge]
        on_left == ParentNode(N, get_id(canonical_edge[1])) = n
        child == IF on_left THEN canonical_edge[1] ELSE canonical_edge[2]
        reversal == get_is_reverse(child)
        parent_index ==
            IF on_left
            THEN (IF reversal THEN 0 ELSE parent_length - length)
            ELSE (IF reversal THEN parent_length - length ELSE 0)
        path == ChildPath(subs, max_id, N, get_id(child))
    IN IF overlap_infos = <<>> THEN {}
       ELSE {[node |-> path[1], parent |-> n,
              start |-> parent_index,
              stop |-> parent_index + Len(seq[path[1]]) - 1,
              reversal |-> reversal]}

\* Bluntifier::compute_provenance: every record made, for every input node.
compute_provenance(seq, subs, max_id, children, destroyed, m, bcs, N) ==
    UNION {LET scan == ScanParentPath(seq, children, destroyed, n,
                                      ParentPath(bcs, N, n), 1,
                                      [parent_length |-> 0, parent_index |-> 0,
                                       records |-> {}])
           IN scan.records
              \cup UNION {BicliqueRecords(seq, subs, max_id, m, bcs, N, n,
                                          scan.parent_length, p[1], p[2]) :
                             p \in {0, 1} \X (DOMAIN bcs)} :
           n \in 1..N}

\* Bluntifier::write_provenance: a line for every node with records, each
\* record written as parent[start:stop + 1] and its orientation.
write_provenance(records) ==
    [id \in {r.node : r \in records} |->
        {[parent |-> r.parent, start |-> r.start, stop |-> r.stop + 1,
          reversal |-> r.reversal] : r \in {x \in records : x.node = id}}]

\* ------------------------------------------------- bluntify, the actions
BlInit ==
    /\ OMIdle
    /\ CovIdle
    /\ SpIdle
    /\ NiIdle
    /\ SepIdle
    /\ gfa_file \in SmallFiles \cup {BigFile}
    /\ bl_pc = "start"
    /\ adjacency_components = <<>>
    /\ bl_i = 0
    /\ bicliques = <<>>
    /\ gfa_final = NoGfa
    /\ provenance_map = {}
    /\ provenance_table = <<>>
    /\ workers = <<>>
    /\ biclique_mutex = NoWorker

\* gfa_to_handle_graph and compute_all_adjacency_components.
Load ==
    /\ bl_pc = "start"
    /\ LET g == gfa_to_handle_graph(gfa_file)
       IN /\ sp_seq' = g.seq
          /\ sp_edges' = g.edges
          /\ overlaps' = g.overlaps
          /\ sp_max_id' = gfa_file.n
          /\ adjacency_components' =
                compute_all_adjacency_components(gfa_file.n, g.edges)
    /\ bl_i' = 1
    /\ bl_pc' = "compute_biclique_cover"
    /\ UNCHANGED <<gfa_file, bicliques, gfa_final, provenance_map, provenance_table>>
    /\ UNCHANGED <<om_call, om_arg, om_edge, om_iter, om_thrown>>
    /\ UNCHANGED <<subgraphs, sp_oo, sp_paths, sp_sub, sp_side, sp_todo, sp_begin,
                   to_be_destroyed, sp_pc, sp_error, sp_last>>
    /\ UNCHANGED <<cov_vars, ni_vars, sep_vars>>
    /\ UNCHANGED <<workers, biclique_mutex>>

\* compute_biclique_cover(i) of the loop of bluntify.
ComputeBicliqueCover ==
    /\ bl_pc = "compute_biclique_cover"
    /\ IF bl_i > Len(adjacency_components)
       THEN /\ bl_pc' = "duplicate"
            /\ UNCHANGED <<bl_i, bicliques>>
       ELSE IF Cardinality(adjacency_components[bl_i]) = 1
       THEN /\ bl_i' = bl_i + 1
            /\ UNCHANGED <<bl_pc, bicliques>>
       ELSE LET b == BlockOf(sp_edges, adjacency_components[bl_i])
            IN \E out \in get_outcomes(b) :
                 IF out.kind = "returned"
                 THEN \E order \in SortedOrders(out.cover) :
                        LET d == deduplicate_and_canonicalize_biclique_cover(
                                     overlaps, b, out.cover, order)
                        IN IF d.thrown
                           THEN /\ bl_pc' = "thrown"
                                /\ UNCHANGED <<bl_i, bicliques>>
                           ELSE /\ bicliques' = bicliques \o d.cover
                                /\ bl_i' = bl_i + 1
                                /\ UNCHANGED bl_pc
                 ELSE /\ bl_pc' = out.kind
                      /\ UNCHANGED <<bl_i, bicliques>>
    /\ UNCHANGED <<gfa_file, adjacency_components, gfa_final, provenance_map,
                   provenance_table>>
    /\ UNCHANGED <<om_vars, cov_vars, sp_vars, ni_vars, sep_vars>>
    /\ UNCHANGED <<workers, biclique_mutex>>

\* map_splice_sites_by_node, duplicate_all_node_termini and
\* harmonize_biclique_orientations (the edges all point forward already).
Duplicate ==
    /\ bl_pc = "duplicate"
    /\ LET d == duplicate_all_node_termini(sp_seq, sp_edges, overlaps, bicliques,
                                           gfa_file.n)
       IN /\ sp_seq' = d.seq
          /\ sp_edges' = d.edges
          /\ overlaps' = d.overlaps
          /\ bicliques' = d.bicliques
          /\ sp_max_id' = Max(DOMAIN d.seq)
          /\ sp_oo' = [child_to_parent |-> d.children,
                       overlapping_children |-> {}, parent_path |-> {}]
    /\ bl_pc' = "align"
    /\ UNCHANGED <<gfa_file, adjacency_components, bl_i, gfa_final, provenance_map,
                   provenance_table>>
    /\ UNCHANGED <<om_call, om_arg, om_edge, om_iter, om_thrown>>
    /\ UNCHANGED <<subgraphs, sp_paths, sp_sub, sp_side, sp_todo, sp_begin,
                   to_be_destroyed, sp_pc, sp_error, sp_last>>
    /\ UNCHANGED <<cov_vars, ni_vars, sep_vars>>
    /\ UNCHANGED <<workers, biclique_mutex>>

\* subgraphs.resize and align_biclique_overlaps(i) for every biclique; then
\* splice_subgraphs is entered.
Align ==
    /\ bl_pc = "align"
    /\ subgraphs' = [b \in DOMAIN bicliques |->
                        align_biclique_overlaps(sp_seq, bicliques[b])]
    /\ sp_paths' = paths_per_handle(bicliques)
    /\ sp_sub' = 1
    /\ sp_pc' = IF bicliques = <<>> THEN "done" ELSE "copy"
    /\ bl_pc' = "splice_subgraphs"
    /\ UNCHANGED <<gfa_file, adjacency_components, bl_i, bicliques, gfa_final,
                   provenance_map, provenance_table>>
    /\ UNCHANGED <<sp_edges, sp_seq, sp_max_id, sp_oo, sp_side, sp_todo, sp_begin,
                   to_be_destroyed, sp_error, sp_last>>
    /\ UNCHANGED <<om_vars, cov_vars, ni_vars, sep_vars>>
    /\ UNCHANGED <<workers, biclique_mutex>>

\* A destruction loop that destroys nothing.
destroy_handles_none(seq, destroyed) == seq

\* gfa_graph.destroy_handle for every id of to_be_destroyed: the nodes left.
destroy_handles(seq, destroyed) == [n \in DOMAIN seq \ destroyed |-> seq[n]]

\* After splice_subgraphs: no node is an overlapping overlap, so
\* splice_overlapping_overlaps has nothing to splice; the provenance is
\* computed and written.
ComputeProvenance ==
    /\ bl_pc = "splice_subgraphs"
    /\ sp_pc = "done"
    /\ provenance_map' = compute_provenance(sp_seq, subgraphs, sp_max_id,
                              sp_oo.child_to_parent, to_be_destroyed, overlaps,
                              bicliques, gfa_file.n)
    /\ provenance_table' = write_provenance(provenance_map')
    /\ bl_pc' = "destroy"
    /\ UNCHANGED <<gfa_file, adjacency_components, bl_i, bicliques, gfa_final>>
    /\ UNCHANGED <<om_vars, cov_vars, sp_vars, ni_vars, sep_vars>>
    /\ UNCHANGED <<workers, biclique_mutex>>

\* The loop over to_be_destroyed: the nodes are destroyed with their edges.
DestroyHandles ==
    /\ bl_pc = "destroy"
    /\ sp_seq' = destroy_handles(sp_seq, to_be_destroyed)
    /\ sp_edges' = {e \in sp_edges : /\ get_id(e[1]) \in DOMAIN sp_seq'
                                     /\ get_id(e[2]) \in DOMAIN sp_seq'}
    /\ bl_pc' = "write"
    /\ UNCHANGED <<gfa_file, adjacency_components, bl_i, bicliques, gfa_final,
                   provenance_map, provenance_table>>
    /\ UNCHANGED <<subgraphs, sp_max_id, sp_oo, sp_paths, sp_sub, sp_side, sp_todo,
                   sp_begin, to_be_destroyed, sp_pc, sp_error, sp_last>>
    /\ UNCHANGED <<om_vars, cov_vars, ni_vars, sep_vars>>
    /\ UNCHANGED <<workers, biclique_mutex>>

\* handle_graph_to_gfa writes what is left.
Finish ==
    /\ bl_pc = "write"
    /\ gfa_final' = handle_graph_to_gfa(sp_seq, sp_edges)
    /\ bl_pc' = "done"
    /\ UNCHANGED <<gfa_file, adjacency_components, bl_i, bicliques,
                   provenance_map, provenance_table>>
    /\ UNCHANGED <<om_vars, cov_vars, sp_vars, ni_vars, sep_vars>>
    /\ UNCHANGED <<workers, biclique_mutex>>

BlNext ==
    \/ Load
    \/ ComputeBicliqueCover
    \/ Duplicate
    \/ Align
    \/ CopySubgraph
    \/ SpliceTerminus
    \/ NextSide
    \/ ComputeProvenance
    \/ DestroyHandles
    \/ Finish

SpecBluntify == BlInit /\ [][BlNext]_vars

\* ------------------------------- compute_biclique_cover, concurrent workers
\* One worker per adjacency component, each running compute_biclique_cover
\* on its component; a step of a worker is one statement that touches the
\* shared state (biclique_mutex, bicliques) or the whole of its private
\* computation.

\* A lock that never waits.
lock_acquired_unguarded(mutex) == TRUE

\* std::mutex::lock returns once no thread holds the mutex.
lock_acquired(mutex) == mutex = NoWorker

NoLocals == [pc |-> "start", cover |-> <<>>, k |-> 0]

WInit ==
    /\ BlInit
    /\ gfa_file \in SmallFiles

\* The workers are started, one per adjacency component.
Spawn ==
    /\ bl_pc = "compute_biclique_cover"
    /\ workers = <<>>
    /\ adjacency_components # <<>>
    /\ workers' = [w \in DOMAIN adjacency_components |-> NoLocals]
    /\ bl_pc' = "workers"
    /\ UNCHANGED <<gfa_file, adjacency_components, bl_i, bicliques, gfa_final,
                   provenance_map, provenance_table, biclique_mutex>>
    /\ UNCHANGED <<om_vars, cov_vars, sp_vars, ni_vars, sep_vars>>

\* What a worker leaves unchanged besides workers, bicliques and the mutex.
WorkerFrame ==
    /\ UNCHANGED <<gfa_file, bl_pc, adjacency_components, bl_i, gfa_final,
                   provenance_map, provenance_table>>
    /\ UNCHANGED <<om_vars, cov_vars, sp_vars, ni_vars, sep_vars>>

\* compute_biclique_cover up to the loop over the deduplicated cover: the
\* trivial component returns at once; otherwise BicliqueCover::get() and
\* deduplicate_and_canonicalize_biclique_cover on the worker's own data.
WorkerCover(w) ==
    /\ bl_pc = "workers"
    /\ workers[w].pc = "start"
    /\ IF Cardinality(adjacency_components[w]) = 1
       THEN workers' = [workers EXCEPT ![w].pc = "returned"]
       ELSE LET b == BlockOf(sp_edges, adjacency_components[w])
            IN \E out \in get_outcomes(b) :
                 IF out.kind = "returned"
                 THEN \E order \in SortedOrders(out.cover) :
                        LET d == deduplicate_and_canonicalize_biclique_cover(
                                     overlaps, b, out.cover, order)
                        IN IF d.thrown
                           THEN workers' = [workers EXCEPT ![w].pc = "thrown"]
                           ELSE workers' = [workers EXCEPT
                                               ![w] = [pc |-> "loop", cover |-> d.cover,
                                                       k |-> 1]]
                 ELSE workers' = [workers EXCEPT ![w].pc = out.kind]
    /\ UNCHANGED <<bicliques, biclique_mutex>>
    /\ WorkerFrame

\* biclique_mutex.lock()
WorkerLock(w) ==
    /\ bl_pc = "workers"
    /\ workers[w].pc = "loop"
    /\ workers[w].k <= Len(workers[w].cover)
    /\ lock_acquired(biclique_mutex)
    /\ biclique_mutex' = w
    /\ workers' = [workers EXCEPT ![w].pc = "locked"]
    /\ UNCHANGED bicliques
    /\ WorkerFrame

\* bicliques.bicliques.emplace_back(biclique)
WorkerAppend(w) ==
    /\ bl_pc = "workers"
    /\ workers[w].pc = "locked"
    /\ bicliques' = Append(bicliques, workers[w].cover[workers[w].k])
    /\ workers' = [workers EXCEPT ![w].pc = "appended"]
    /\ UNCHANGED biclique_mutex
    /\ WorkerFrame

\* biclique_mutex.unlock() and the next round of the loop.
WorkerUnlock(w) ==
    /\ bl_pc = "workers"
    /\ workers[w].pc = "appended"
    /\ biclique_mutex' = NoWorker
    /\ workers' = [workers EXCEPT ![w].pc = "loop", ![w].k = @ + 1]
    /\ UNCHANGED bicliques
    /\ WorkerFrame

\* The loop is over: compute_biclique_cover returns.
WorkerReturn(w) ==
    /\ bl_pc = "workers"
    /\ workers[w].pc = "loop"
    /\ workers[w].k > Len(workers[w].cover)
    /\ workers' = [workers EXCEPT ![w].pc = "returned"]
    /\ UNCHANGED <<bicliques, biclique_mutex>>
    /\ WorkerFrame

WNext ==
    \/ Load
    \/ Spawn
    \/ \E w \in DOMAIN workers :
          \/ WorkerCover(w)
          \/ WorkerLock(w)
          \/ WorkerAppend(w)
          \/ WorkerUnlock(w)
          \/ WorkerReturn(w)

SpecWorkers == WInit /\ [][WNext]_vars

\* ------------------------------------------------------------------ NodeInfo
\* The nodes of the graph NodeInfo looks at before any duplication, its
\* handles and edges, and what Alignment::compute_lengths gives for a CIGAR:
\* the length on the edge's first handle and the length on its second.
NiNodes == 1..MaxNiNode
NiHandles == NiNodes \X BOOLEAN
NiEdges == NiHandles \X NiHandles
NiCigars == (1..MaxOverlapLen) \X (1..MaxOverlapLen)

\* NodeInfo::get_overlap_length: lengths.first for side 0, lengths.second
\* for side 1, of the CIGAR stored for the edge.
get_overlap_length(m, edge, side) == IF side = 0 THEN m[edge][1] ELSE m[edge][2]

\* The side filed for a node on the left of an edge, in the opposite sense.
side_of_left_node_swapped(h) == IF ~get_is_reverse(h) THEN 0 ELSE 1

\* The node is on the left of the edge: the overlap is on its right side
\* (1) when the handle is forward, on its left side (0) when it is reversed.
side_of_left_node(h) == IF ~get_is_reverse(h) THEN 1 ELSE 0

\* The node is on the right of the edge: side 0 when forward, 1 when reversed.
side_of_right_node(h) == IF ~get_is_reverse(h) THEN 0 ELSE 1

\* child_to_parent.find(id): the parent when id is a child, else id itself.
parent_or_self(c2p, id) == IF id \in DOMAIN c2p THEN c2p[id][1] ELSE id

\* factored_overlaps[side][biclique_index].emplace_back(edge_index, length)
emplace_overlap(f, side, index, length) ==
    [f EXCEPT ![side][index[1]] = Append(@, <<index[2], length>>)]

\* The body of the loop of factor_overlaps_by_biclique_and_side for one
\* index: edge is the edge looked at, left and right the node ids compared
\* with ni_node_id.
factor_edge(f, m, n, index, edge, left, right) ==
    LET f1 == IF left = n
              THEN emplace_overlap(f, side_of_left_node(edge[1]), index,
                                   get_overlap_length(m, edge, 0))
              ELSE f
    IN IF right = n
       THEN emplace_overlap(f1, side_of_right_node(edge[2]), index,
                            get_overlap_length(m, edge, 1))
       ELSE f1

RECURSIVE factor_overlaps_by_biclique_and_side(_, _, _, _, _, _, _)
\* NodeInfo::factor_overlaps_by_biclique_and_side, both overloads, from
\* position k of node_to_biclique_edge[ni_node_id] on.  With by_parent the edge
\* is canonicalised first and the ids are mapped through child_to_parent,
\* and an edge with the node on neither side throws.
factor_overlaps_by_biclique_and_side(f, bcs, m, c2p, by_parent, indexes, n) ==
    IF indexes = <<>> THEN [factored |-> f, thrown |-> FALSE]
    ELSE LET index == Head(indexes)
             edge == IF by_parent THEN canon(m, bcs[index[1]][index[2]])
                     ELSE bcs[index[1]][index[2]]
             left == IF by_parent THEN parent_or_self(c2p, get_id(edge[1]))
                     ELSE get_id(edge[1])
             right == IF by_parent THEN parent_or_self(c2p, get_id(edge[2]))
                      ELSE get_id(edge[2])
         IN IF by_parent /\ left # n /\ right # n
            THEN [factored |-> f, thrown |-> TRUE]
            ELSE factor_overlaps_by_biclique_and_side(
                     factor_edge(f, m, n, index, edge, left, right),
                     bcs, m, c2p, by_parent, Tail(indexes), n)

\* The (biclique, edge) positions of bcs, biclique by biclique.
RECURSIVE PositionsFrom(_, _, _)
PositionsFrom(bcs, i, j) ==
    IF i > Len(bcs) THEN <<>>
    ELSE IF j > Len(bcs[i]) THEN PositionsFrom(bcs, i + 1, 1)
    ELSE <<(<<i, j>>)>> \o PositionsFrom(bcs, i, j + 1)

\* Bluntifier::map_splice_sites_by_node: every edge is indexed under its
\* left node, and under its right node unless that is the same node.
map_splice_sites_by_node(bcs, nodes) ==
    [n \in nodes |->
        SelectSeq(PositionsFrom(bcs, 1, 1),
                  LAMBDA index :
                      LET edge == bcs[index[1]][index[2]]
                      IN get_id(edge[1]) = n \/ get_id(edge[2]) = n)]

\* No entry on either side for any biclique.
NoOverlapsFactored(bcs) == [side \in {0, 1} |-> [b \in DOMAIN bcs |-> <<>>]]

\* The id of the child made for node n on a side.
ChildOf(n, side) == MaxNiNode + 2 * (n - 1) + side + 1

\* The handle that replaces h as the left (at_left) or right end of an edge
\* once the nodes of D have their termini duplicated.
ChildHandle(D, h, at_left) ==
    IF get_id(h) \notin D THEN h
    ELSE <<ChildOf(get_id(h),
                   IF at_left THEN side_of_left_node(h) ELSE side_of_right_node(h)),
           get_is_reverse(h)>>

ChildEdge(D, e) == <<ChildHandle(D, e[1], TRUE), ChildHandle(D, e[2], FALSE)>>

NiInit ==
    /\ OMIdle
    /\ CovIdle
    /\ SpIdle
    /\ BlIdle
    /\ SepIdle
    /\ \E e1 \in NiEdges, e2 \in NiEdges, c1 \in NiCigars, c2 \in NiCigars,
          split \in BOOLEAN :
          /\ e1 # e2
          /\ ni_bicliques = IF split THEN <<(<<e1>>), (<<e2>>)>> ELSE <<(<<e1, e2>>)>>
          /\ ni_overlaps = [e \in {e1, e2} |-> IF e = e1 THEN c1 ELSE c2]
    /\ node_to_biclique_edge = <<>>
    /\ child_to_parent = <<>>
    /\ ni_node_id = 0
    /\ ni_factored_overlaps = <<>>
    /\ ni_graph = <<>>
    /\ ni_skipped = {}
    /\ ni_pc = "start"

MapSpliceSites ==
    /\ ni_pc = "start"
    /\ node_to_biclique_edge' = map_splice_sites_by_node(ni_bicliques, NiNodes)
    /\ ni_pc' = "mapped"
    /\ UNCHANGED <<ni_bicliques, ni_overlaps, child_to_parent, ni_node_id,
                   ni_factored_overlaps>>
    /\ UNCHANGED <<ni_graph, ni_skipped>>
    /\ UNCHANGED <<om_vars, cov_vars, sp_vars, bl_vars, sep_vars>>

\* NodeInfo for node n of the unedited graph.
FactorOverlaps ==
    /\ ni_pc = "mapped"
    /\ \E n \in NiNodes :
          /\ ni_node_id' = n
          /\ ni_factored_overlaps' =
                factor_overlaps_by_biclique_and_side(
                    NoOverlapsFactored(ni_bicliques), ni_bicliques, ni_overlaps,
                    child_to_parent, FALSE, node_to_biclique_edge[n], n).factored
    /\ ni_pc' = "factored"
    /\ UNCHANGED <<ni_bicliques, ni_overlaps, node_to_biclique_edge, child_to_parent>>
    /\ UNCHANGED <<ni_graph, ni_skipped>>
    /\ UNCHANGED <<om_vars, cov_vars, sp_vars, bl_vars, sep_vars>>

\* The graph is edited between the two uses of NodeInfo: the nodes of D get
\* a child for each side with overlaps, the edges and the overlap map are
\* moved to the children, and the harmonisation of the bicliques leaves
\* the edges of the positions in F in their flipped form.
EditGraph ==
    /\ ni_pc = "mapped"
    /\ \E D \in SUBSET NiNodes, F \in SUBSET {1, 2} :
          LET moved == [b \in DOMAIN ni_bicliques |->
                           [j \in DOMAIN ni_bicliques[b] |->
                               ChildEdge(D, ni_bicliques[b][j])]]
              keys == {ChildEdge(D, e) : e \in DOMAIN ni_overlaps}
          IN /\ ni_overlaps' =
                   [k \in keys |->
                       ni_overlaps[CHOOSE e \in DOMAIN ni_overlaps : ChildEdge(D, e) = k]]
             /\ ni_bicliques' =
                   [b \in DOMAIN moved |->
                       [j \in DOMAIN moved[b] |->
                           IF (b + j - 1) \in F THEN FlipEdge(moved[b][j])
                           ELSE moved[b][j]]]
             /\ child_to_parent' =
                   [c \in {ChildOf(n, s) : n \in D, s \in {0, 1}} |->
                       CHOOSE p \in D \X {0, 1} : ChildOf(p[1], p[2]) = c]
    /\ ni_pc' = "edited"
    /\ UNCHANGED <<node_to_biclique_edge, ni_node_id, ni_factored_overlaps>>
    /\ UNCHANGED <<ni_graph, ni_skipped>>
    /\ UNCHANGED <<om_vars, cov_vars, sp_vars, bl_vars, sep_vars>>

\* NodeInfo for parent node n of the edited graph (the overload that takes
\* child_to_parent).
FactorOverlapsByParent ==
    /\ ni_pc = "edited"
    /\ \E n \in NiNodes :
          LET r == factor_overlaps_by_biclique_and_side(
                       NoOverlapsFactored(ni_bicliques), ni_bicliques, ni_overlaps,
                       child_to_parent, TRUE, node_to_biclique_edge[n], n)
          IN /\ ni_node_id' = n
             /\ ni_factored_overlaps' = r.factored
             /\ ni_pc' = IF r.thrown THEN "thrown" ELSE "factored"
    /\ UNCHANGED <<ni_bicliques, ni_overlaps, node_to_biclique_edge, child_to_parent>>
    /\ UNCHANGED <<ni_graph, ni_skipped>>
    /\ UNCHANGED <<om_vars, cov_vars, sp_vars, bl_vars, sep_vars>>

NiNext ==
    \/ MapSpliceSites
    \/ FactorOverlaps
    \/ EditGraph
    \/ FactorOverlapsByParent

SpecNodeInfo == NiInit /\ [][NiNext]_vars

\* ------------------------------------- duplicate_termini (the executable)
\* The graph of the duplication: the length of every node and the edges.
\* An edge and its flipped form are the same edge of a handle graph.
has_edge(g, e) == e \in g.edges \/ FlipEdge(e) \in g.edges

create_edge(g, e) == IF has_edge(g, e) THEN g ELSE [g EXCEPT !.edges = @ \cup {e}]

destroy_edge(g, e) == [g EXCEPT !.edges = @ \ {e, FlipEdge(e)}]

\* The longest overlap of the entries filed for a biclique (the first entry
\* once sort_factored_overlaps has sorted them).
LongestOverlap(entries) == Max({entries[x][2] : x \in DOMAIN entries})

\* The orders of the bicliques of S in which the extents never increase:
\* what std::sort with a.second > b.second can leave behind.
RECURSIVE DescendingOrders(_, _)
DescendingOrders(S, extent) ==
    IF S = {} THEN {<<>>}
    ELSE UNION {{<<b>> \o rest : rest \in DescendingOrders(S \ {b}, extent)} :
                   b \in {x \in S : \A y \in S : extent[x] >= extent[y]}}

\* NodeInfo::get_sorted_biclique_extents for one side of the factored
\* overlaps f: every ranking of the bicliques with an entry on that side,
\* with the extents in the same order.
get_sorted_biclique_extents(f, side) ==
    LET S == {b \in DOMAIN f[side] : f[side][b] # <<>>}
        extent == [b \in S |-> LongestOverlap(f[side][b])]
    IN {[bicliques |-> order, sizes |-> [i \in DOMAIN order |-> extent[order[i]]]] :
           order \in DescendingOrders(S, extent)}

\* remove_participating_edges: every edge of a biclique ranked on either
\* side that has parent_node at one end is destroyed.
remove_participating_edges(g, bcs, sorted_bicliques_per_side, parent_node) ==
    LET ranked == Range(sorted_bicliques_per_side[0]) \cup Range(sorted_bicliques_per_side[1])
        gone == {e \in UNION {Range(bcs[b]) : b \in ranked} :
                    get_id(e[1]) = parent_node \/ get_id(e[2]) = parent_node}
    IN [g EXCEPT !.edges = @ \ (gone \cup {FlipEdge(e) : e \in gone})]

\* duplicate_prefix and duplicate_suffix: a forward child of each size is
\* made with a fresh id, next to the parent, which keeps its id and loses
\* the longest size from that end; children[0] is the parent's remaining
\* piece and children[i + 1] the child of sizes[i].
duplicate_terminus(g, sizes, parent_handle, side) ==
    LET max_id == Max(DOMAIN g.length)
        kids == [i \in DOMAIN sizes |-> Fwd(max_id + i)]
    IN [graph |->
           [length |-> [n \in DOMAIN g.length \cup {max_id + i : i \in DOMAIN sizes} |->
                           IF n = get_id(parent_handle) THEN g.length[n] - sizes[1]
                           ELSE IF n \in DOMAIN g.length THEN g.length[n]
                           ELSE sizes[n - max_id]],
            edges |-> g.edges \cup {IF side = 0 THEN <<kids[i], parent_handle>>
                                    ELSE <<parent_handle, kids[i]>> : i \in DOMAIN sizes}],
        children |-> <<parent_handle>> \o kids]

duplicate_prefix(g, sizes, parent_handle) == duplicate_terminus(g, sizes, parent_handle, 0)

duplicate_suffix(g, sizes, parent_handle) == duplicate_terminus(g, sizes, parent_handle, 1)

\* children[k] of the deque.
ChildAt(children, k) == children[k + 1]

\* update_biclique_edges, what becomes of one edge of the biclique ranked
\* i on `side`: the end looked at is the second handle on side 0 and the
\* first on side 1; when it is the old handle or its flipped form it is
\* replaced by a child, and so is the other end of a self-loop.
updated_edge(old_edge, old_handle, old_handle_flipped, children, duped_side, side, i) ==
    LET end == IF side = 0 THEN old_edge[2] ELSE old_edge[1]
        loop == old_edge[1] = old_edge[2]
        own == ChildAt(children, IF duped_side = side THEN i + 1 ELSE 0)
        other == ChildAt(children, IF duped_side = side THEN 0 ELSE i + 1)
        new_end == IF end = old_handle THEN own ELSE flip(other)
        new_loop_end == IF end = old_handle THEN other ELSE flip(own)
    IN IF end # old_handle /\ end # old_handle_flipped THEN old_edge
       ELSE IF side = 0
       THEN <<IF loop THEN new_loop_end ELSE old_edge[1], new_end>>
       ELSE <<new_end, IF loop THEN new_loop_end ELSE old_edge[2]>>

RECURSIVE update_biclique_edges(_, _, _, _, _, _, _)
\* update_biclique_edges from position (side, i, j) of the ranked bicliques
\* on: both sides are walked whichever side was duplicated; a replaced
\* edge is created in the graph and re-keyed in the overlaps.
update_biclique_edges(st, old_handle, sorted_bicliques_per_side, children, duped_side, todo, none) ==
    IF todo = <<>> THEN st
    ELSE LET side == Head(todo)[1]
             i == Head(todo)[2]
             j == Head(todo)[3]
             b == sorted_bicliques_per_side[side][i + 1]
             old_edge == st.bcs[b][j]
             touched == LET end == IF side = 0 THEN old_edge[2] ELSE old_edge[1]
                        IN end = old_handle \/ end = flip(old_handle)
             in_range == i + 1 < Len(children)
             edge == updated_edge(old_edge, old_handle, flip(old_handle), children,
                                  duped_side, side, i)
         IN IF ~touched
            THEN update_biclique_edges(st, old_handle, sorted_bicliques_per_side,
                                       children, duped_side, Tail(todo), none)
            ELSE IF ~in_range THEN [st EXCEPT !.undefined = TRUE]
            ELSE update_biclique_edges(
                     [bcs |-> [st.bcs EXCEPT ![b][j] = edge],
                      graph |-> create_edge(st.graph, edge),
                      overlaps |-> IF old_edge = edge THEN st.overlaps
                                   ELSE update_edge(st.overlaps, old_edge, edge),
                      undefined |-> FALSE],
                     old_handle, sorted_bicliques_per_side, children, duped_side,
                     Tail(todo), none)

\* The positions update_biclique_edges walks, in its order.
RECURSIVE WalkFrom(_, _, _, _, _)
WalkFrom(bcs, sorted_bicliques_per_side, side, i, j) ==
    IF side > 1 THEN <<>>
    ELSE IF i >= Len(sorted_bicliques_per_side[side])
    THEN WalkFrom(bcs, sorted_bicliques_per_side, side + 1, 0, 1)
    ELSE IF j > Len(bcs[sorted_bicliques_per_side[side][i + 1]])
    THEN WalkFrom(bcs, sorted_bicliques_per_side, side, i + 1, 1)
    ELSE <<(<<side, i, j>>)>> \o WalkFrom(bcs, sorted_bicliques_per_side, side, i, j + 1)

\* The body of the loop of duplicate_termini for node n, the bicliques
\* ranked as `sorted` (one ranking per side).
duplicate_termini_of(g, bcs, m, index, n, sorted) ==
    LET per_side == [s \in {0, 1} |-> sorted[s].bicliques]
        sizes == [s \in {0, 1} |-> sorted[s].sizes]
        parent_handle == Fwd(n)
        g0 == remove_participating_edges(g, bcs, per_side, n)
        st0 == [bcs |-> bcs, graph |-> g0, overlaps |-> m, undefined |-> FALSE]
        left == duplicate_prefix(g0, sizes[0], parent_handle)
        st1 == IF sizes[0] = <<>> THEN st0
               ELSE update_biclique_edges(
                        [st0 EXCEPT !.graph = left.graph], parent_handle, per_side,
                        left.children, 0, WalkFrom(bcs, per_side, 0, 0, 1), 0)
        parent1 == IF sizes[0] = <<>> THEN parent_handle ELSE ChildAt(left.children, 0)
        trivial == /\ Len(sizes[1]) = 1
                   /\ sizes[1][1] = st1.graph.length[get_id(parent1)]
        right == duplicate_suffix(st1.graph, sizes[1], parent1)
        st2 == IF sizes[1] = <<>> \/ trivial \/ st1.undefined THEN st1
               ELSE update_biclique_edges(
                        [st1 EXCEPT !.graph = right.graph], parent1, per_side,
                        right.children, 1, WalkFrom(st1.bcs, per_side, 0, 0, 1), 0)
    IN [state |-> st2,
        skipped |-> sizes[1] # <<>> /\ trivial,
        left_duplicated |-> sizes[0] # <<>>]

\* The overlaps of the input fit the nodes: on every node the longest
\* overlap on the left ends before the node does and the longest on the
\* right starts after it, and a piece of the node is left between them
\* unless the right side is the trivial case.
OverlapsFit(length, bcs, m) ==
    \A n \in DOMAIN length :
       LET f == factor_overlaps_by_biclique_and_side(
                    NoOverlapsFactored(bcs), bcs, m, <<>>, FALSE,
                    map_splice_sites_by_node(bcs, DOMAIN length)[n], n).factored
           reach == [s \in {0, 1} |->
                        Max({0} \cup {LongestOverlap(f[s][b]) :
                                         b \in {x \in DOMAIN bcs : f[s][x] # <<>>}})]
           right == {x \in DOMAIN bcs : f[1][x] # <<>>}
       IN /\ reach[0] < length[n]
          /\ reach[0] + reach[1] <= length[n]
          /\ Cardinality(right) > 1 => reach[0] + reach[1] < length[n]

\* Two edges that can be in one biclique: the same handle on one side.
ShareASide(e1, e2) == e1[1] = e2[1] \/ e1[2] = e2[2]

DtInit ==
    /\ OMIdle
    /\ CovIdle
    /\ SpIdle
    /\ BlIdle
    /\ SepIdle
    /\ \E e1 \in NiEdges, e2 \in NiEdges, c1 \in NiCigars, c2 \in NiCigars,
          layout \in {"one", "split", "together"},
          length \in [NiNodes -> 1..MaxNodeLen] :
          /\ e1 # FlipEdge(e2)
          /\ get_id(e1[1]) # get_id(e1[2])
          /\ get_id(e2[1]) # get_id(e2[2])
          /\ (layout = "one") <=> (e1 = e2)
          /\ layout = "together" => ShareASide(e1, e2)
          /\ ni_bicliques = IF layout = "one" THEN <<(<<e1>>)>>
                            ELSE IF layout = "split" THEN <<(<<e1>>), (<<e2>>)>>
                            ELSE <<(<<e1, e2>>)>>
          /\ ni_overlaps = [e \in {e1, e2} |-> IF e = e1 THEN c1 ELSE c2]
          /\ OverlapsFit(length, ni_bicliques, ni_overlaps)
          /\ ni_graph = [length |-> length, edges |-> {e1, e2}]
    /\ node_to_biclique_edge = <<>>
    /\ child_to_parent = <<>>
    /\ ni_node_id = 0
    /\ ni_factored_overlaps = <<>>
    /\ ni_skipped = {}
    /\ ni_pc = "start"

\* One round of the loop of duplicate_termini.
DuplicateTermini ==
    /\ ni_pc \in {"mapped", "duplicating"}
    /\ ni_node_id < MaxNiNode
    /\ LET n == ni_node_id + 1
           f == factor_overlaps_by_biclique_and_side(
                    NoOverlapsFactored(ni_bicliques), ni_bicliques, ni_overlaps,
                    <<>>, FALSE, node_to_biclique_edge[n], n).factored
       IN \E s0 \in get_sorted_biclique_extents(f, 0),
             s1 \in get_sorted_biclique_extents(f, 1) :
             LET r == duplicate_termini_of(ni_graph, ni_bicliques, ni_overlaps,
                                           node_to_biclique_edge, n,
                                           [s \in {0, 1} |-> IF s = 0 THEN s0 ELSE s1])
             IN /\ ni_factored_overlaps' = f
                /\ ni_node_id' = n
                /\ ni_bicliques' = r.state.bcs
                /\ ni_graph' = r.state.graph
                /\ ni_overlaps' = r.state.overlaps
                /\ ni_skipped' = IF r.skipped
                                 THEN ni_skipped \cup {<<n, r.left_duplicated>>}
                                 ELSE ni_skipped
                /\ ni_pc' = IF r.state.undefined THEN "undefined"
                            ELSE IF n = MaxNiNode THEN "duplicated"
                            ELSE "duplicating"
    /\ UNCHANGED <<node_to_biclique_edge, child_to_parent>>
    /\ UNCHANGED <<om_vars, cov_vars, sp_vars, bl_vars, sep_vars>>

DtNext ==
    \/ MapSpliceSites
    \/ DuplicateTermini

SpecDuplicateTermini == DtInit /\ [][DtNext]_vars

\* ----------------------------------------------- walks and what they spell
\* The handles of a graph with node sequences seq.
HandlesOf(seq) == (DOMAIN seq) \X BOOLEAN

\* The sequence spelled by the input walk w (one to three handles): every
\* link overlaps by LinkOverlap bases, which are spelled once.
SpelledByInput(seq, w) ==
    IF Len(w) = 1 THEN get_sequence(seq, w[1])
    ELSE IF Len(w) = 2
    THEN get_sequence(seq, w[1])
            \o SubSeq(get_sequence(seq, w[2]), LinkOverlap + 1, Len(seq[get_id(w[2])]))
    ELSE get_sequence(seq, w[1])
            \o SubSeq(get_sequence(seq, w[2]), LinkOverlap + 1, Len(seq[get_id(w[2])]))
            \o SubSeq(get_sequence(seq, w[3]), LinkOverlap + 1, Len(seq[get_id(w[3])]))

\* The walks of the graph with exactly one link and with exactly two.
OneLinkWalks(seq, E) ==
    UNION {{<<a, b>> : b \in follow_edges(E, a, FALSE)} : a \in HandlesOf(seq)}

TwoLinkWalks(seq, E) ==
    UNION {{<<w[1], w[2], c>> : c \in follow_edges(E, w[2], FALSE)} :
              w \in OneLinkWalks(seq, E)}

IsSubstring(s, t) ==
    \E i \in 1..(Len(t) - Len(s) + 1) : SubSeq(t, i, i + Len(s) - 1) = s

\* The positions <<handle, offset>> of a blunt graph whose base is c.
Positions(seq, c) ==
    {p \in UNION {{<<h, o>> : o \in 1..Len(seq[get_id(h)])} : h \in HandlesOf(seq)} :
        get_sequence(seq, p[1])[p[2]] = c}

\* The positions that follow one of P in some walk and hold the base c.
Advance(seq, E, P, c) ==
    {<<p[1], p[2] + 1>> : p \in {q \in P : /\ q[2] < Len(seq[get_id(q[1])])
                                           /\ get_sequence(seq, q[1])[q[2] + 1] = c}}
    \cup UNION {{<<h, 1>> : h \in {x \in follow_edges(E, p[1], FALSE) :
                                      get_sequence(seq, x)[1] = c}} :
                p \in {q \in P : q[2] = Len(seq[get_id(q[1])])}}

RECURSIVE Matches(_, _, _, _, _)
\* The positions at which a spelling of s[1..i] can end, given those for i - 1.
Matches(seq, E, s, i, P) ==
    IF i > Len(s) \/ P = {} THEN P
    ELSE Matches(seq, E, s, i + 1, Advance(seq, E, P, s[i]))

\* Whether some walk of the blunt graph spells a sequence that contains s.
SpelledBySomeWalk(seq, E, s) ==
    s = <<>> \/ Matches(seq, E, s, 2, Positions(seq, s[1])) # {}

\* The sequences spelled by the walks of the input with two links, and by
\* those with at most two.
InputGraph == gfa_to_handle_graph(gfa_file)

TwoHopSequences ==
    {SpelledByInput(InputGraph.seq, w) :
        w \in TwoLinkWalks(InputGraph.seq, InputGraph.edges)}

UpToTwoHopSequences ==
    TwoHopSequences
    \cup {SpelledByInput(InputGraph.seq, w) :
             w \in OneLinkWalks(InputGraph.seq, InputGraph.edges)}
    \cup {get_sequence(InputGraph.seq, h) : h \in HandlesOf(InputGraph.seq)}

\* Whether BicliqueCover::get has been called on a block within the size
\* test and has returned: separator() has then read past the end of
\* menger_graph, and what follows is what undefined behaviour left behind.
ReadPastMengerGraph ==
    \E i \in 1..(bl_i - 1) :
        /\ Cardinality(adjacency_components[i]) > 1
        /\ WithinThreshold(BlockOf(InputGraph.edges, adjacency_components[i]))

\* The overlap length the OverlapMap holds for an edge, 0 when it holds none.
OverlapLength(m, e) ==
    IF canonicalize_and_find(m, e).thrown THEN 0
    ELSE m[canonicalize_and_find(m, e).iter]

\* How many times edge e is listed in the bicliques.
Listings(bcs, e) ==
    Cardinality({p \in UNION {{b} \X (DOMAIN bcs[b]) : b \in DOMAIN bcs} :
                    bcs[p[1]][p[2]] = e})

\* ------------------------------------------------------------ the claims

\* C1: two-hop preservation.  When bluntify has written its output (and
\* has not run into undefined behaviour on the way), every sequence spelled
\* by a walk of two consecutive links of the input is contained in the
\* sequence spelled by some walk of the output graph.
C1_TwoHopPreserved ==
    (bl_pc = "done" /\ ~ReadPastMengerGraph) =>
        \A s \in TwoHopSequences :
            SpelledBySomeWalk(gfa_final.seq, gfa_final.edges, s)

\* C2: no new one-hop adjacencies.  When bluntify has written its output
\* (and has not run into undefined behaviour on the way), for every edge
\* (x, y) of the output graph seq(x) + seq(y) is a substring of the
\* sequence spelled by some input walk of at most two links, in one of the
\* two orientations.
C2_NoNewAdjacency ==
    (bl_pc = "done" /\ ~ReadPastMengerGraph) =>
        \A xy \in {get_sequence(gfa_final.seq, e[1]) \o get_sequence(gfa_final.seq, e[2]) :
                      e \in gfa_final.edges} :
            \E t \in UpToTwoHopSequences : IsSubstring(xy, t)

\* C3: bluntness.  When bluntify has written its output (and has not run
\* into undefined behaviour on the way), the overlap the OverlapMap holds
\* for any edge of the output graph is the length "0M" written on its L
\* line: no overlapped link is left in the output.
C3_Blunt ==
    (bl_pc = "done" /\ ~ReadPastMengerGraph) =>
        \A e \in gfa_final.edges : OverlapLength(overlaps, e) = WrittenOverlap

\* C5: biclique disjointness after dedup.  When compute_biclique_cover has
\* been called on every adjacency component (and has not run into
\* undefined behaviour), every edge of the graph, in its canonical form,
\* is listed exactly once in the bicliques.
C5_ExactlyOneBiclique ==
    (bl_pc = "duplicate" /\ ~ReadPastMengerGraph) =>
        \A e \in sp_edges : Listings(bicliques, canon(overlaps, e)) = 1

\* Whether every link of the input is listed in some biclique (by the
\* edges as they are after the duplication).
LinksCovered ==
    \A l \in gfa_file.links : \E b \in DOMAIN bicliques :
        RedirectedEdge(gfa_file.n, b, <<Fwd(l[1]), Fwd(l[2])>>) \in Range(bicliques[b])

\* What a provenance record reads from its parent's input sequence.
ReadRecord(r) ==
    LET s == SubSeq(InputGraph.seq[r.parent], r.start + 1, r.stop + 1)
    IN IF r.reversal THEN ReverseComplement(s) ELSE s

\* The derivations of the output nodes from the termini of the bicliques:
\* the node of a biclique's subgraph derives from the suffix of the left
\* node and from the prefix of the right node of every edge of the biclique.
TerminusDerivations ==
    UNION {UNION {{[node |-> SubgraphNode(subgraphs, sp_max_id, b),
                    parent |-> ParentNode(gfa_file.n, get_id(e[1])),
                    start |-> Len(SequenceOf(ParentNode(gfa_file.n, get_id(e[1]))))
                                  - Len(subgraphs[b]),
                    stop |-> Len(SequenceOf(ParentNode(gfa_file.n, get_id(e[1])))) - 1,
                    reversal |-> FALSE],
                   [node |-> SubgraphNode(subgraphs, sp_max_id, b),
                    parent |-> ParentNode(gfa_file.n, get_id(e[2])),
                    start |-> 0,
                    stop |-> Len(subgraphs[b]) - 1,
                    reversal |-> FALSE]} : e \in Range(bicliques[b])} :
           b \in DOMAIN bicliques}

\* The states bluntify ends in: its output written, an exception thrown, or
\* the process crashed or hung.
Ended ==
    \/ bl_pc \in {"done", "thrown", "crashed", "hung"}
    \/ bl_pc = "splice_subgraphs" /\ sp_pc = "thrown"

\* Two segments joined by one link.
SingleOverlapFile == [n |-> 2, links |-> {<<1, 2>>}]

\* C11: provenance coverage.  When bluntify has written its output for a
\* graph whose links were all covered by bicliques, every output node has a
\* provenance record, every record of an output node reads the node's
\* sequence from its parent, and every derivation of an output node from a
\* terminus of a biclique is among the records.
C11_ProvenanceCoverage ==
    (bl_pc = "done" /\ LinksCovered) =>
        /\ \A x \in DOMAIN gfa_final.seq : \E r \in provenance_map : r.node = x
        /\ \A r \in provenance_map :
              r.node \in DOMAIN gfa_final.seq => ReadRecord(r) = gfa_final.seq[r.node]
        /\ TerminusDerivations \subseteq provenance_map

\* C12: single exact overlap.  When bluntify has ended on two segments
\* joined by one link, it has ended by writing exactly three segments, the
\* first segment without its overlapped suffix, the overlap, and the second
\* segment without its overlapped prefix, joined by exactly two edges in
\* that order, and the records of the overlap's node name both segments.
C12_SingleExactOverlap ==
    (Ended /\ gfa_file = SingleOverlapFile) =>
        /\ bl_pc = "done"
        /\ \E x, y, z \in DOMAIN gfa_final.seq :
              /\ DOMAIN gfa_final.seq = {x, y, z}
              /\ Cardinality({x, y, z}) = 3
              /\ gfa_final.seq[x] = SubSeq(SequenceOf(1), 1, Len(SequenceOf(1)) - LinkOverlap)
              /\ gfa_final.seq[y] = SubSeq(SequenceOf(2), 1, LinkOverlap)
              /\ gfa_final.seq[z] = SubSeq(SequenceOf(2), LinkOverlap + 1, Len(SequenceOf(2)))
              /\ gfa_final.edges = {<<Fwd(x), Fwd(y)>>, <<Fwd(y), Fwd(z)>>}
              /\ {r.parent : r \in {q \in provenance_map : q.node = y}} = {1, 2}

SimplifyingNbd(p) == Nbd(Simplified(ss_call), ss_call.side, p)

\* C14: the counters of simplify_side.  After the initialisation and after
\* every edge removal, for the first and the second partition, degree[u] is
\* the size of u's neighbourhood, neighbor_delta[u][v] is the number of
\* neighbours of u that are not neighbours of v, for all distinct u and v,
\* and no counter has been decremented below zero.
C14_CountersExact ==
    cov_pc = "simplify" =>
        \A u, v \in 1..ss_call.n :
            /\ ss_call.degree[u] = Cardinality(SimplifyingNbd(u))
            /\ u # v => ss_call.neighbor_delta[u][v]
                            = Cardinality(SimplifyingNbd(u) \ SimplifyingNbd(v))
            /\ ss_call.degree[u] >= 0
            /\ ss_call.neighbor_delta[u][v] >= 0
            /\ ss_call.num_successors[u] >= 0

\* C15: the successor relation of simplify_side.  Wherever the next node to
\* simplify is selected, successor[u][v] is true exactly when the
\* neighbourhood of u is contained in the neighbourhood of v, for all
\* distinct u and v: a containment that arose from a removal is recorded as
\* "v succeeds u".
C15_SuccessorExact ==
    (cov_pc = "simplify" /\ ss_call.phase = "scan") =>
        \A u, v \in 1..ss_call.n :
            u # v => (ss_call.successor[u][v]
                        <=> SimplifyingNbd(u) \subseteq SimplifyingNbd(v))

\* C16: the end of simplify_side.  When a call has ended, no two distinct
\* nodes u and v of the partition are left with the neighbourhood of u
\* non-empty and contained in the neighbourhood of v.
C16_NoContainmentLeft ==
    (cov_pc = "simplify" /\ ss_call.phase = "done") =>
        \A u, v \in 1..ss_call.n :
            u # v => ~(/\ SimplifyingNbd(u) # {}
                       /\ SimplifyingNbd(u) \subseteq SimplifyingNbd(v))

\* The right-neighbourhood of left node l within the right neighbours of
\* the centre c, in the graph with edges E.
RightNbdAround(E, c, l) == Nbd(E, "L", l) \cap Nbd(E, "L", c)

\* The right-neighbourhoods of the equivalence classes of the two-hop
\* subgraph around c: one for each group of left nodes with the same
\* neighbours among the right neighbours of c.
ClassNbds(nl, E, c) ==
    {RightNbdAround(E, c, l) : l \in {x \in 1..nl : RightNbdAround(E, c, x) # {}}}

\* The classes that strictly contain class A and are minimal so.
ImmediateSuccessors(S, A) ==
    {B \in S : /\ A \subseteq B /\ A # B
               /\ ~\E D \in S : A \subseteq D /\ D \subseteq B /\ D # A /\ D # B}

\* The neighbourhood ordering property around c: the classes that share a
\* right node form a chain by strict containment, and a class has at most
\* one immediate successor.
NeighborOrdering(nl, E, c) ==
    /\ \A A, B \in ClassNbds(nl, E, c) :
          A \cap B # {} => (A \subseteq B \/ B \subseteq A)
    /\ \A A \in ClassNbds(nl, E, c) :
          Cardinality(ImmediateSuccessors(ClassNbds(nl, E, c), A)) <= 1

\* C17: the neighbourhood ordering property.  Once the trees of the
\* simplified graph have been built, the tree of a centre c reports
\* has_neighbor_ordering_property() exactly when the equivalence classes
\* around c form chains by strict containment with a unique immediate
\* successor.
C17_NeighborOrderingIff ==
    cov_pc = "biclique_cover" =>
        \A c \in 1..blk.nl :
            has_neighbor_ordering_property(CenteredGaloisTree(simplified, c))
                <=> NeighborOrdering(blk.nl, simplified, c)

\* C18: returned bicliques.  Every bipartition <<L, R>> that get() returns
\* is a biclique of the input block: L and R are non-empty sets of left and
\* right nodes, and every node of L is adjacent to every node of R in the
\* input graph.
C18_ReturnedAreBicliques ==
    cov_pc = "returned" =>
        \A x \in 1..Len(return_val) :
            /\ return_val[x][1] # {} /\ return_val[x][1] \subseteq 1..blk.nl
            /\ return_val[x][2] # {} /\ return_val[x][2] \subseteq 1..blk.nr
            /\ return_val[x][1] \X return_val[x][2] \subseteq blk.E

\* get() has returned a biclique whose left side has the nodes of more than
\* one equivalence class, next to another biclique.
C18_Witness ==
    /\ cov_pc = "returned"
    /\ Len(return_val) >= 2
    /\ \E x \in 1..Len(return_val) :
          /\ Cardinality(return_val[x][1]) >= 2
          /\ Cardinality(return_val[x][2]) < Cardinality(Nbd(blk.E, "L",
                                   CHOOSE l \in return_val[x][1] : TRUE))

\* The lattice nodes of the maximal bicliques: all but the two synthetic
\* nodes, which are the last two.
LatticeNodes(gl) == 1..(Len(gl.lattice) - 2)

\* The synthetic source and sink of separator(): the last two lattice nodes.
SyntheticSource(gl) == Len(gl.lattice) - 1
SyntheticSink(gl) == Len(gl.lattice)

\* Whether the lattice has the edge i -> j.
LatticeEdge(gl, i, j) == j \in Range(gl.lattice[i])

RECURSIVE LatticeReach(_, _, _)
\* The lattice nodes reached from the nodes F without entering a node of S.
LatticeReach(gl, S, F) ==
    LET G == F \cup {j \in (1..Len(gl.lattice)) \ S :
                        \E i \in F : LatticeEdge(gl, i, j)}
    IN IF G = F THEN F ELSE LatticeReach(gl, S, G)

\* ---------------------------------------------- GaloisLattice::separator
\* The adjacency lists separator() is called on: k nodes of maximal
\* bicliques, then the join and the meet; every node but the meet has a
\* successor or, the join, none; no edge enters the join or leaves the
\* meet, and there is no cycle.
AdjacencyOf(k, inner, from_join) ==
    [lattice |-> [i \in 1..(k + 2) |->
                     IF i <= k THEN SetToSeq(inner[i])
                     ELSE IF i = k + 1 THEN SetToSeq(from_join)
                     ELSE <<>>]]

IsAcyclic(gl) ==
    \A i \in 1..Len(gl.lattice) :
        i \notin LatticeReach(gl, {}, Range(gl.lattice[i]))

AcyclicLattices ==
    UNION {{gl \in {AdjacencyOf(k, inner, from_join) :
                       inner \in [1..k -> (SUBSET ((1..k) \cup {k + 2})) \ {{}}],
                       from_join \in SUBSET (1..k)} : IsAcyclic(gl)} :
           k \in 0..MaxSepNodes}

\* size_t source = 2 * lattice.size() - 2, sink = 2 * lattice.size() - 1
source(gl) == 2 * Len(gl.lattice) - 2
sink(gl) == 2 * Len(gl.lattice) - 1

\* The node of menger_graph that an edge to lattice node j (counted from 1)
\* enters: the sink is not doubled.
adj(gl, j) == IF j = Len(gl.lattice) THEN sink(gl) ELSE 2 * (j - 1)

\* menger_graph after the loop over the nodes other than the join and the
\* meet: a vector of 2 * lattice.size() - 2 lists, indexed from 0; the node
\* `in` has the across-the-node edge to `out`, and `out` the node's edges;
\* the last two lists are not written by the loop.
across_the_node(gl) ==
    [x \in 0..(MengerSize(gl) - 1) |->
        IF x >= 2 * (Len(gl.lattice) - 2) THEN <<>>
        ELSE IF x % 2 = 0 THEN <<x + 1>>
        ELSE [p \in DOMAIN gl.lattice[(x - 1) \div 2 + 1] |->
                 adj(gl, gl.lattice[(x - 1) \div 2 + 1][p])]]

SepInit ==
    /\ OMIdle
    /\ CovIdle
    /\ SpIdle
    /\ BlIdle
    /\ NiIdle
    /\ sep_lattice \in AcyclicLattices
    /\ menger_graph = <<>>
    /\ sep_return = <<>>
    /\ sep_pc = "separator"

\* separator(): menger_graph is made and filled for every doubled node.
BuildMengerGraph ==
    /\ sep_pc = "separator"
    /\ menger_graph' = across_the_node(sep_lattice)
    /\ sep_pc' = "source_edges"
    /\ UNCHANGED <<sep_lattice, sep_return>>
    /\ UNCHANGED <<om_vars, cov_vars, sp_vars, bl_vars, ni_vars>>

\* "add the source's edges": menger_graph[source] is not an element of the
\* vector.  What the call does from there on is not defined: it crashes,
\* or does not return, or returns some list of lattice nodes.
SourceEdges ==
    /\ sep_pc = "source_edges"
    /\ source(sep_lattice) \notin DOMAIN menger_graph
    /\ \/ /\ sep_pc' = "crashed"
          /\ sep_return' = sep_return
       \/ /\ sep_pc' = "hung"
          /\ sep_return' = sep_return
       \/ \E S \in SUBSET Interior(sep_lattice) :
             /\ sep_pc' = "returned"
             /\ sep_return' = SetToSeq(S)
    /\ UNCHANGED <<sep_lattice, menger_graph>>
    /\ UNCHANGED <<om_vars, cov_vars, sp_vars, bl_vars, ni_vars>>

SepNext ==
    \/ BuildMengerGraph
    \/ SourceEdges

SpecSeparator == SepInit /\ [][SepNext]_vars

\* Whether node i lies on a path from the synthetic source to the sink.
OnSourceSinkPath(gl, i) ==
    /\ i \in LatticeReach(gl, {}, {SyntheticSource(gl)})
    /\ SyntheticSink(gl) \in LatticeReach(gl, {}, {i})

\* C19: source and sink of the lattice.  In a lattice that was built (the
\* block passed as domino-free), the synthetic source has an edge to every
\* node that has no incoming edge from another node, every node that has no
\* outgoing edge to another node has an edge to the synthetic sink, and
\* every node of a maximal biclique lies on a path from the source to the
\* sink.
C19_SourceAndSink ==
    (cov_pc = "biclique_cover" /\ is_domino_free(galois)) =>
        \A i \in LatticeNodes(galois) :
            /\ (~\E j \in LatticeNodes(galois) \ {i} : LatticeEdge(galois, j, i))
                  => LatticeEdge(galois, SyntheticSource(galois), i)
            /\ (~\E j \in LatticeNodes(galois) \ {i} : LatticeEdge(galois, i, j))
                  => LatticeEdge(galois, i, SyntheticSink(galois))
            /\ OnSourceSinkPath(galois, i)

\* Whether the set S of interior nodes meets every path from the synthetic
\* source to the sink.
IsNodeCut(gl, S) ==
    /\ S \subseteq LatticeNodes(gl)
    /\ SyntheticSink(gl) \notin LatticeReach(gl, S, {SyntheticSource(gl)})

\* A node cut of the least size.
IsMinimumNodeCut(gl, S) ==
    /\ IsNodeCut(gl, S)
    /\ \A T \in SUBSET LatticeNodes(gl) :
          IsNodeCut(gl, T) => Cardinality(T) >= Cardinality(S)

\* C20: the separator.  A call of biclique_cover() on a lattice that was
\* built returns, and what it returns is the cover of a minimum node cut of
\* the lattice between the synthetic source and sink, each node once.
C20_MinimumNodeCut ==
    [][(cov_pc = "biclique_cover" /\ is_domino_free(galois)) =>
          /\ cov_pc' \in {"returned", "heuristic_cover"}
          /\ \E S \in SUBSET LatticeNodes(galois) :
                /\ IsMinimumNodeCut(galois, S)
                /\ return_val' = biclique_cover(galois, SetToSeq(S))]_vars

\* The number of places of a list that hold x.
Occurrences(list, x) == Cardinality({i \in DOMAIN list : list[i] = x})

RECURSIVE AppendedByWorkers(_)
\* The deduplicated covers of workers 1..w, one after the other.
AppendedByWorkers(w) ==
    IF w = 0 THEN <<>> ELSE AppendedByWorkers(w - 1) \o workers[w].cover

AllWorkersReturned ==
    /\ bl_pc = "workers"
    /\ \A w \in DOMAIN workers : workers[w].pc = "returned"

EndLength(m, e, first) ==
    IF e \in DOMAIN m
    THEN (IF first THEN m[e][1] ELSE m[e][2])
    ELSE (IF first THEN m[FlipEdge(e)][2] ELSE m[FlipEdge(e)][1])

\* Whether an end of an edge is the node NodeInfo was made for.
IsOwnEnd(h) == parent_or_self(child_to_parent, get_id(h)) = ni_node_id

\* The (side, length) filings the edge (u, v) at a position is due: one for
\* u when u's node is the node, one for v when v's node is.
DueFilings(index) ==
    LET e == ni_bicliques[index[1]][index[2]]
    IN (IF IsOwnEnd(e[1])
        THEN <<(<<IF get_is_reverse(e[1]) THEN 0 ELSE 1,
                  EndLength(ni_overlaps, e, TRUE)>>)>>
        ELSE <<>>)
       \o (IF IsOwnEnd(e[2])
           THEN <<(<<IF get_is_reverse(e[2]) THEN 1 ELSE 0,
                     EndLength(ni_overlaps, e, FALSE)>>)>>
           ELSE <<>>)

\* C22: side assignment of overlaps.  For every biclique edge (u, v) indexed
\* under the node, the overlap is filed under side 1 when u is the node
\* and forward, side 0 when u is the node and reversed, side 0 when v is
\* the node and forward, side 1 when v is the node and reversed, each time
\* with the length of that end of the CIGAR; every indexed edge is filed at
\* least once, an edge with both ends on the node once per end, and nothing
\* else is filed.  Neither overload throws.
C22_SideAssignment ==
    /\ ni_pc # "thrown"
    /\ ni_pc = "factored" =>
          LET indexes == node_to_biclique_edge[ni_node_id]
          IN /\ \A k \in DOMAIN indexes :
                   LET due == DueFilings(indexes[k])
                       e == ni_bicliques[indexes[k][1]][indexes[k][2]]
                   IN /\ Len(due) >= 1
                      /\ (IsOwnEnd(e[1]) /\ IsOwnEnd(e[2])) => Len(due) = 2
                      /\ \A s \in {0, 1}, len \in 1..MaxOverlapLen :
                            Occurrences(ni_factored_overlaps[s][indexes[k][1]],
                                        <<indexes[k][2], len>>)
                               = Occurrences(due, <<s, len>>)
             /\ \A s \in {0, 1}, b \in DOMAIN ni_bicliques :
                   \A x \in DOMAIN ni_factored_overlaps[s][b] :
                      \E k \in DOMAIN indexes :
                         indexes[k] = <<b, ni_factored_overlaps[s][b][x][1]>>

\* The overload for the edited graph has filed an edge held in its flipped
\* form, both of whose ends are children of the node, with two lengths.
C22_Witness ==
    /\ ni_pc = "factored"
    /\ child_to_parent # <<>>
    /\ \E k \in DOMAIN node_to_biclique_edge[ni_node_id] :
          LET index == node_to_biclique_edge[ni_node_id][k]
              e == ni_bicliques[index[1]][index[2]]
          IN /\ e \notin DOMAIN ni_overlaps
             /\ get_id(e[1]) \in DOMAIN child_to_parent
             /\ get_id(e[2]) \in DOMAIN child_to_parent
             /\ IsOwnEnd(e[1]) /\ IsOwnEnd(e[2])
             /\ EndLength(ni_overlaps, e, TRUE) # EndLength(ni_overlaps, e, FALSE)

\* C23: duplicate_termini replaces every participating edge.  Once every
\* node has been processed, each edge held by a biclique is an edge of the
\* graph, also where the duplication of a right side was skipped as trivial.
C23_BicliqueEdgesInGraph ==
    ni_pc = "duplicated" =>
        \A b \in DOMAIN ni_bicliques : \A j \in DOMAIN ni_bicliques[b] :
            has_edge(ni_graph, ni_bicliques[b][j])

\* A step of splice_subgraphs that splices a terminus which is no
\* overlapping overlap child without throwing; sp_last' is that terminus.
SplicesTerminus ==
    /\ sp_pc = "paths"
    /\ sp_todo # {}
    /\ sp_last'.acted
    /\ ~sp_last'.thrown
    /\ ~is_oo_node_child(sp_oo, get_id(sp_last'.handle))

\* The main-graph nodes (not copied from a subgraph) next to the terminus
\* on the side away from its biclique, before the step.
AdjacentParents ==
    {h \in follow_edges(sp_edges, sp_last'.handle, sp_last'.side = 0) :
        get_id(h) \in SpNodes}

\* A step that copies a subgraph gives it ids that no node and no edge of
\* the main graph has.
CopiesDisjoint ==
    (sp_seq' # sp_seq) =>
        /\ get_id(sp_begin') \notin DOMAIN sp_seq
        /\ \A e \in sp_edges : get_id(sp_begin') \notin {get_id(e[1]), get_id(e[2])}

C25_DeferredDestruction ==
    /\ bl_pc \in {"align", "splice_subgraphs", "destroy"} =>
          to_be_destroyed \subseteq DOMAIN sp_seq
    /\ bl_pc = "splice_subgraphs" => provenance_map = {}
    /\ gfa_final.written =>
          /\ bl_pc = "done"
          /\ to_be_destroyed \cap DOMAIN sp_seq = {}
          /\ to_be_destroyed \cap DOMAIN gfa_final.seq = {}
          /\ \A e \in gfa_final.edges :
                {get_id(e[1]), get_id(e[2])} \cap to_be_destroyed = {}

\* The final GFA is written after nodes were scheduled for destruction,
\* and the provenance computed before has records.
C25_Witness ==
    /\ gfa_final.written
    /\ to_be_destroyed # {}
    /\ provenance_map # {}

\* The termini (paths) of the subgraphs on the node n.
TerminiOn(n) == {p \in sp_paths : get_id(p.handle) = n}

\* The terminus p has its node, in either orientation, on the other side
\* of its own subgraph as well.
OnBothSides(p) ==
    \E q \in TerminiOn(get_id(p.handle)) : q.sub = p.sub /\ q.side = 1 - p.side

\* The node of the terminus p is a terminus of another biclique as well.
InAnotherBiclique(p) ==
    \E q \in TerminiOn(get_id(p.handle)) : q.sub # p.sub

SubgraphOrders ==
    {order \in [1..MaxSubgraphs -> 1..MaxSubgraphs] :
        \A i, j \in 1..MaxSubgraphs : order[i] = order[j] => i = j}

\* The outcome of splicing the subgraphs in an order, the node copied for
\* subgraph i renamed to MaxSpNode + i: the edges created (an edge and its
\* flipped form being one edge), to_be_destroyed and whether the
\* dangling-terminus error was raised.
SpliceOutcome(order) ==
    LET r == splice_subgraphs([edges |-> sp_edges, destroyed |-> {}, thrown |-> FALSE],
                              sp_oo, sp_paths, order, 1)
        Renamed(h) == IF get_id(h) > MaxSpNode
                      THEN <<MaxSpNode + order[get_id(h) - MaxSpNode], get_is_reverse(h)>>
                      ELSE h
    IN IF r.thrown THEN [thrown |-> TRUE, created |-> {}, destroyed |-> {}]
       ELSE [thrown |-> FALSE,
             created |-> {{<<Renamed(e[1]), Renamed(e[2])>>,
                           FlipEdge(<<Renamed(e[1]), Renamed(e[2])>>)} :
                             e \in r.edges \ sp_edges},
             destroyed |-> r.destroyed]

RecordsOfBiclique(n, side, b) ==
    LET scan == ScanParentPath(sp_seq, sp_oo.child_to_parent, to_be_destroyed, n,
                               ParentPath(bicliques, gfa_file.n, n), 1,
                               [parent_length |-> 0, parent_index |-> 0,
                                records |-> {}])
    IN BicliqueRecords(sp_seq, subgraphs, sp_max_id, overlaps, bicliques,
                       gfa_file.n, n, scan.parent_length, side, b)

\* C28: provenance coordinates.  For every biclique on a side of a parent
\* the records made along the child's path are intervals of the parent's
\* input sequence: of a forward terminus they start at 0 on the left side
\* and at the input length less the overlap on the right side, and always
\* 0 <= start <= stop < the input length.
C28_ProvenanceCoordinates ==
    bl_pc = "destroy" =>
        \A n \in 1..gfa_file.n, side \in {0, 1}, b \in DOMAIN bicliques :
            \A r \in RecordsOfBiclique(n, side, b) :
                /\ r \in provenance_map
                /\ ~r.reversal =>
                      r.start = (IF side = 0 THEN 0
                                 ELSE Len(SequenceOf(n)) - LinkOverlap)
                /\ 0 <= r.start
                /\ r.start <= r.stop
                /\ r.stop < Len(SequenceOf(n))

\* C29: the lattice is acyclic.  In a lattice that was built (the block
\* passed as domino-free) no lattice node has an edge to itself, no node is
\* reached again from one of its successors, and no node lists the same
\* successor twice.
C29_LatticeAcyclic ==
    (cov_pc = "biclique_cover" /\ is_domino_free(galois)) =>
        \A i \in 1..Len(galois.lattice) :
            /\ ~LatticeEdge(galois, i, i)
            /\ i \notin LatticeReach(galois, {}, Range(galois.lattice[i]))
            /\ \A j \in Range(galois.lattice[i]) :
                  Occurrences(galois.lattice[i], j) = 1

C4_CoverComplete == cov_pc = "returned" => Covers(return_val, blk)

\* C6: canonical lookup.  The OverlapMap never holds both forms of one
\* physical overlap, and a lookup of (u, v) and a lookup of
\* (flip(v), flip(u)) return the same entry and leave the caller with the
\* same edge, the stored key.
C6_CanonicalLookup ==
    /\ \A e \in DOMAIN overlaps : FlipEdge(e) \in DOMAIN overlaps => FlipEdge(e) = e
    /\ \A e \in Edges :
          ~canonicalize_and_find(overlaps, e).thrown =>
              /\ canonicalize_and_find(overlaps, FlipEdge(e)).iter
                     = canonicalize_and_find(overlaps, e).iter
              /\ canonicalize_and_find(overlaps, FlipEdge(e)).edge
                     = canonicalize_and_find(overlaps, e).edge
              /\ canonicalize_and_find(overlaps, e).edge
                     = canonicalize_and_find(overlaps, e).iter

\* C7: canonicalisation idempotence.  In every state of the OverlapMap and
\* for every edge on which canonicalize_and_find succeeds, a second lookup
\* of the rewritten edge succeeds, leaves the edge as it is and returns the
\* same entry; so does a lookup of the edge the last lookup wrote back.
C7_CanonIdempotent ==
    /\ \A e \in Edges :
          ~canonicalize_and_find(overlaps, e).thrown =>
              /\ ~canonicalize_and_find(overlaps, canon(overlaps, e)).thrown
              /\ canon(overlaps, canon(overlaps, e)) = canon(overlaps, e)
              /\ canonicalize_and_find(overlaps, canon(overlaps, e)).iter
                     = canonicalize_and_find(overlaps, e).iter
    /\ (om_call = "canonicalize_and_find" /\ ~om_thrown) =>
          /\ canon(overlaps, om_edge) = om_edge
          /\ canonicalize_and_find(overlaps, om_edge).iter = om_iter

\* C7's case: a lookup succeeded on the second find and rewrote the edge.
C7_Witness ==
    /\ om_call = "canonicalize_and_find"
    /\ ~om_thrown
    /\ om_edge # om_arg

\* C8: a call of canonicalize_and_find throws exactly when neither the edge
\* given nor its other form (flip(v), flip(u)) is a key of the map, and a
\* call that throws leaves the map as it was.
C8_NotFoundExactly ==
    [][om_call' = "canonicalize_and_find" =>
          /\ om_thrown' <=> (/\ om_arg' \notin DOMAIN overlaps
                             /\ FlipEdge(om_arg') \notin DOMAIN overlaps)
          /\ om_thrown' => overlaps' = overlaps]_vars

\* C8's case: a lookup has thrown although the map holds entries.
C8_Witness ==
    /\ om_call = "canonicalize_and_find"
    /\ om_thrown
    /\ overlaps # <<>>

\* C9: not-domino-free fall-through.  When get() has ended on a block
\* within the size threshold whose Galois lattice was cleared because a
\* centred tree lacks the neighbourhood ordering property, it has ended by
\* returning, with no exception, the (empty) result of heuristic_cover.
C9_FallThrough ==
    (/\ cov_pc \in {"returned", "thrown", "crashed", "hung"}
     /\ WithinThreshold(blk)
     /\ ~is_domino_free(galois)) =>
        (cov_pc = "returned" /\ cov_error = "none" /\ return_val = <<>>)

\* C10, as stated: the terminus visited last made splice_subgraphs throw
\* exactly when no node is adjacent to it on its parent-facing side and it
\* is not an overlapping overlap parent, and the error names its node id.
C10_DanglingAsStated ==
    sp_last.acted =>
        /\ sp_last.thrown <=>
              (/\ follow_edges(sp_last.edges, sp_last.handle, sp_last.side = 0) = {}
               /\ ~is_oo_node_parent(sp_oo, get_id(sp_last.handle)))
        /\ sp_last.thrown => (sp_pc = "thrown" /\ sp_error = get_id(sp_last.handle))

\* C10, amended: the terminus visited last made splice_subgraphs throw
\* exactly when it is not an overlapping overlap child, every node adjacent
\* to it on its parent-facing side is scheduled for destruction (or there
\* is none), and it is not an overlapping overlap parent; the error names
\* its node id, and no error is raised when an adjacent node is kept.
C10_DanglingTerminus ==
    sp_last.acted =>
        /\ sp_last.thrown <=>
              (/\ get_id(sp_last.handle) \notin sp_oo.overlapping_children
               /\ \A h \in follow_edges(sp_last.edges, sp_last.handle,
                                        sp_last.side = 0) :
                      get_id(h) \in sp_last.destroyed
               /\ get_id(sp_last.handle) \notin sp_oo.parent_path)
        /\ sp_last.thrown => (sp_pc = "thrown" /\ sp_error = get_id(sp_last.handle))

\* C10's case: splice_subgraphs has thrown at a terminus that has an
\* adjacent node, every one of them scheduled for destruction.
C10_Witness ==
    /\ sp_pc = "thrown"
    /\ sp_last.thrown
    /\ follow_edges(sp_last.edges, sp_last.handle, sp_last.side = 0) # {}

=============================================================================
